---- MODULE Spec2Model ----
(***************************************************************************)
(* Model of the crypto-market ETL service: the orchestrator                *)
(* (ingestion/etl.py), the checkpoint store (ingestion/checkpoint.py),     *)
(* the three source adapters (ingestion/sources/*.py) and the entity       *)
(* resolver (services/entity_resolution.py).                               *)
(*                                                                         *)
(* The scheduler process is one asyncio event loop.  A run of              *)
(* run_etl_for_source only yields the loop inside the HTTP fetch; the      *)
(* database calls are synchronous, so from the return of fetch to the end  *)
(* of the run no other task of the process runs (variable cur).  The       *)
(* process may die at any point (Crash) and any database call may fail     *)
(* (a fault, counted in faults).  The clock is coarse: it advances while   *)
(* the loop is idle (Tick) and between the records of a batch, and not     *)
(* inside the other synchronous sections.  The sources share no state, so  *)
(* in one behaviour one source (live, any of the three) meets the whole    *)
(* environment: records, provider errors, database faults, passing time;   *)
(* the other two providers answer every fetch with an empty list.          *)
(*                                                                         *)
(* The entity resolver is not called by the orchestrator.  It is modelled  *)
(* on its own (SpecResolve), called from two threads of one process that   *)
(* share its class-level cache, one action per statement.                  *)
(***************************************************************************)
EXTENDS Integers, Sequences, FiniteSets, TLC

\* ---------------------------------------------------------------- bounds
MaxTicks == 2
MaxBatch == 2
MaxTime == 1
MaxFaults == 1
MaxReadFaults == 6
MaxEdits == 1
MaxRecords == 2
MaxCalls == 3
MaxPage == 3
MaxPageSize == 2

\* ------------------------------------------------------------- constants
Null == 0 - 1
NoneStr == "None"
\* A key that the record (a dict) does not have: of a text field, of a
\* numeric field.
MissingKey == "<missing>"
MissingNum == 0 - 2

Sources == <<"coinpaprika", "coingecko", "csv">>
SourceNames == {Sources[k] : k \in 1..Len(Sources)}
HttpSources == {"coinpaprika", "coingecko"}

MaxRuns == Len(Sources) * MaxTicks
RunIds == 1..MaxRuns

\* A fetched record, reduced to the fields the pipeline branches on:
\* coin_id (None fails validation of the HTTP schemas), symbol (None makes
\* the normalizer raise on .upper(), and fails validation of the csv schema)
\* and one of the numeric fields the upsert refreshes.
Items ==
    { [coin_id |-> "btc", symbol |-> "BTC", name |-> "Bitcoin", price |-> 1],
      [coin_id |-> "btc", symbol |-> "btc", name |-> "Bitcoin", price |-> 2],
      [coin_id |-> "btc", symbol |-> NoneStr, name |-> "Bitcoin", price |-> 1],
      [coin_id |-> NoneStr, symbol |-> "ETH", name |-> "Ethereum", price |-> 1] }

RECURSIVE SeqsUpTo(_, _)
SeqsUpTo(S, n) ==
    IF n = 0 THEN {<<>>}
    ELSE LET shorter == SeqsUpTo(S, n - 1)
         IN  shorter \cup {Append(q, x) : q \in {p \in shorter : Len(p) = n - 1}, x \in S}

Batches == SeqsUpTo(Items, MaxBatch)

\* A row of the csv file has no coin_id column; pandas reads an empty symbol
\* cell as a missing value.
CsvItems ==
    { [coin_id |-> NoneStr, symbol |-> "ETH", name |-> "Ethereum", price |-> 1],
      [coin_id |-> NoneStr, symbol |-> NoneStr, name |-> "Ethereum", price |-> 1] }

\* The csv file: absent, or its data rows in file order.
NoFile == [exists |-> FALSE, rows |-> <<>>]
CsvFiles == {NoFile} \cup [exists : {TRUE}, rows : SeqsUpTo(CsvItems, MaxBatch)]

\* The database calls that can fail, and the death of the process.
Sites == {"insert_run", "get_checkpoint", "save_raw", "raw_insert", "upsert", "commit",
          "update_checkpoint", "update_run", "process"}

VARIABLES
    clock,      \* the wall clock read by datetime.utcnow()
    run,        \* local variables of each run of run_etl_for_source
    cur,        \* the run executing synchronous code, 0 when the loop is idle
    gathers,    \* the run_all_sources invocations
    etl_runs,   \* table etl_runs, by run_id
    ckpt,       \* table etl_checkpoints, by source_name
    raw,        \* tables raw_coinpaprika, raw_coingecko, raw_csv
    norm,       \* table normalized_crypto_data
    csvFile,    \* the file at settings.csv_data_path
    live,       \* the source that is served records in this behaviour
    overlap,    \* whether a trigger may fire while an earlier one is running
    unreliable, \* the sites that can fail in this behaviour
    budget,     \* the number of disruptions this behaviour can have
    faults,     \* disruptions so far: failed database calls and process deaths
    edits,      \* rewrites of the csv file so far
    master_coins,           \* table master_coins
    master_coins_id_seq,    \* the sequence behind master_coins.id
    coin_source_mappings,   \* table coin_source_mappings
    source_mapping_cache,   \* EntityResolutionService._source_mapping_cache
    calls,                  \* the calls of get_or_create_master_coin in progress
    resolved,               \* what the calls made so far have returned
    request,                \* the call under study: an API request or a function's arguments
    response                \* what that call returned or raised

etlVars == <<clock, run, cur, gathers, etl_runs, ckpt, raw, norm, csvFile, live,
             overlap, unreliable, budget, faults, edits>>
resolverVars == <<master_coins, master_coins_id_seq, coin_source_mappings,
                  source_mapping_cache, calls, resolved>>
apiVars == <<request, response>>
vars == <<etlVars, resolverVars, apiVars>>

\* ------------------------------------------------------------ the clock
\* datetime.utcnow(): the wall clock never goes back here, and two reads may
\* return the same instant.  Now is the read of a record's data_timestamp.
Now == {clock} \cup (IF clock < MaxTime THEN {clock + 1} ELSE {})

\* A database call fails (TRUE) or not; failures are bounded by MaxFaults.
FaultAfter(site, s, n) ==
    {FALSE} \cup (IF site \in unreliable /\ s = live /\ faults + n < budget
                  THEN {TRUE} ELSE {})
FaultChoice(site, s) == FaultAfter(site, s, 0)
B2N(b) == IF b THEN 1 ELSE 0

\* ------------------------------------------------- conversions of values
\* checkpoint_value is a string column.  A value is kept with the conversion
\* that produced it: datetime.isoformat() of an instant, str() of a row
\* count, or the value the migration seeded.
IsoFormat(t) == [kind |-> "iso", v |-> t]
StrOfInt(n) == [kind |-> "rows", v |-> n]
SeedValue == [kind |-> "seed", v |-> 0]

\* ---------------------------------------------------------------- rows
NoRunRow ==
    [source_name |-> NoneStr, status |-> "absent", started_at |-> Null,
     completed_at |-> Null, duration_seconds |-> Null, records_fetched |-> Null,
     records_processed |-> Null, records_failed |-> Null, error_message |-> NoneStr]

NoMetadata == [run_id |-> 0, records_processed |-> Null]

SeedCheckpoint ==
    [checkpoint_value |-> SeedValue, last_success_at |-> Null,
     last_failure_at |-> Null, failure_reason |-> NoneStr, metadata |-> NoMetadata]

\* get_checkpoint() returning None
NoCheckpoint ==
    [checkpoint_value |-> [kind |-> "none", v |-> 0], last_success_at |-> Null,
     last_failure_at |-> Null, failure_reason |-> NoneStr, metadata |-> NoMetadata]

NoRun ==
    [src |-> NoneStr, pc |-> "none", gather |-> 0, started_at |-> Null,
     raw_data |-> <<>>, i |-> 0, records_fetched |-> 0, records_processed |-> 0,
     records_failed |-> 0, status |-> "success", error_message |-> NoneStr,
     tx |-> <<>>, txAborted |-> FALSE,
     \* history of the run, read by the properties only
     wlog |-> <<>>, excs |-> 0, fetchRaised |-> FALSE, markRaised |-> NoneStr,
     ckptAtStart |-> NoCheckpoint, normAtCommit |-> {}]

\* ----------------------------------------------- entity resolver: values
Threads == {1, 2}
MappingKeys == { [source |-> "coingecko", source_id |-> "bitcoin"],
                 [source |-> "coinpaprika", source_id |-> "btc-bitcoin"] }
Symbols == {"btc", "BTC", "XBT"}
Names == {"Bitcoin", "Wrapped Bitcoin"}

\* str.upper() and str.lower() on these values
Upper(sym) == IF sym = "btc" THEN "BTC" ELSE sym
Lower(name) == IF name = "Bitcoin" THEN "bitcoin" ELSE "wrapped bitcoin"

\* name.lower().replace(' ', '-').replace('.', '')
CanonicalId(name) == IF name = "Bitcoin" THEN "bitcoin" ELSE "wrapped-bitcoin"

\* SequenceMatcher(None, a, b).ratio(), in thousandths
Similarity(a, b) == IF a = b THEN 1000 ELSE 636
SimilarityThreshold == 700

NoCall ==
    [pc |-> "idle", symbol |-> "", name |-> "", source |-> "", source_id |-> "",
     master_coin_id |-> Null]

InitResolver ==
    /\ master_coins = {}
    /\ master_coins_id_seq = 1
    /\ coin_source_mappings = {}
    /\ source_mapping_cache = [k \in MappingKeys |-> Null]
    /\ calls = [c \in Threads |-> NoCall]
    /\ resolved = {}

\* No API request has been made.
NoRequest == [op |-> "none"]
NoResponse == [op |-> "none"]
InitApi ==
    /\ request = NoRequest
    /\ response = NoResponse

\* ------------------------------------------------------------------ Init
Init ==
    /\ InitResolver
    /\ InitApi
    /\ clock = 0
    /\ run = [r \in RunIds |-> NoRun]
    /\ cur = 0
    /\ gathers = <<>>
    /\ etl_runs = [r \in RunIds |-> NoRunRow]
    /\ ckpt = [s \in SourceNames |-> SeedCheckpoint]
    /\ raw = {}
    /\ norm = {}
    /\ live \in SourceNames
    /\ overlap = FALSE
    /\ unreliable = Sites
    /\ budget = MaxFaults
    /\ csvFile \in (IF live = "csv" THEN CsvFiles \ {NoFile} ELSE {NoFile})
    /\ faults = 0
    /\ edits = 0

\* ----------------------------------------------------- checkpoint store
\* CheckpointManager.get_checkpoint: the row of the source, or None when the
\* query fails (the exception is logged and swallowed).
GetCheckpoint(s, fault) == IF fault THEN NoCheckpoint ELSE ckpt[s]

\* CheckpointManager.get_last_row_number: with no checkpoint it returns 0;
\* with one, `checkpoint["type"]` is evaluated outside the try block on a dict
\* that has no such key, and the KeyError leaves the method.
GetLastRowNumber(cp) ==
    IF cp = NoCheckpoint
    THEN [raised |-> FALSE, value |-> 0]
    ELSE [raised |-> TRUE, value |-> 0]

\* update_checkpoint(success=True): the UPDATE of the source's row.
MarkSuccessRow(row, value, t, metadata) ==
    [row EXCEPT !.checkpoint_value = value,
                !.last_success_at = t,
                !.metadata = metadata]

MarkFailureRowWritesValue(row, t, msg) ==
    [row EXCEPT !.checkpoint_value = [kind |-> "empty", v |-> 0],
                !.last_failure_at = t,
                !.failure_reason = msg]

\* update_checkpoint(success=False): the UPDATE of the source's row; the
\* checkpoint_value argument ("") is not written.
MarkFailureRow(row, t, msg) ==
    [row EXCEPT !.last_failure_at = t,
                !.failure_reason = msg]

\* ------------------------------------------------------ source adapters
\* ---- SchemaDriftDetector
\* The runtime types of the values of a record, and the expected schema: for
\* each expected field one type, or a tuple of allowed types.
RuntimeTypes == {"str", "int", "float", "NoneType"}
ExpectedFields == <<"coin_id", "rank", "price_usd">>
OneType(t) == [tuple |-> FALSE, types |-> {t}]
TupleOf(ts) == [tuple |-> TRUE, types |-> ts]
NoSchema == [set |-> FALSE]
\* The schema of the detector's unit tests: one type per field.
PLAIN_SCHEMA ==
    [set |-> TRUE, coin_id |-> OneType("str"), rank |-> OneType("int"),
     price_usd |-> OneType("float")]
\* COINPAPRIKA_SCHEMA: the numerics are (float, type(None)).
COINPAPRIKA_SCHEMA ==
    [set |-> TRUE, coin_id |-> OneType("str"), rank |-> OneType("int"),
     price_usd |-> TupleOf({"float", "NoneType"})]

\* The record as the detector sees it: for each key its value's runtime
\* type, MissingKey for a key the dict does not have.
DriftRecords ==
    [coin_id : RuntimeTypes \cup {MissingKey}, rank : RuntimeTypes \cup {MissingKey},
     price_usd : RuntimeTypes \cup {MissingKey}, extra : RuntimeTypes \cup {MissingKey}]

ExpectedFieldSet == {ExpectedFields[k] : k \in 1..Len(ExpectedFields)}
ActualFields(data) == {f \in DOMAIN data : data[f] # MissingKey}

\* `actual_type != expected_type`: a type never equals a tuple of types.
TypeDiffers(actual, expected) == expected.tuple \/ expected.types # {actual}

\* The expected fields whose value is present, not None, and of a type
\* that differs from the expected one, in the order of the schema.
TypeMismatches(schema, data) ==
    SelectSeq(ExpectedFields,
              LAMBDA f : /\ data[f] # MissingKey
                         /\ data[f] # "NoneType"
                         /\ TypeDiffers(data[f], schema[f]))

\* detect_drift: (has_drift, confidence, warnings), or the AttributeError of
\* expected_type.__name__ on a tuple.  confidence is the fraction num / den.
DetectDrift(schema, data) ==
    IF ~schema.set
    THEN [raised |-> FALSE, has_drift |-> FALSE, confidence |-> [num |-> 1, den |-> 1],
          warnings |-> <<>>]
    ELSE LET missing_fields == ExpectedFieldSet \ ActualFields(data)
             extra_fields == ActualFields(data) \ ExpectedFieldSet
             type_mismatches == TypeMismatches(schema, data)
             matching == ExpectedFieldSet \cap ActualFields(data)
             score == 10 * Cardinality(matching)
                        - Len(type_mismatches) * Cardinality(ExpectedFieldSet)
         IN  IF \E k \in 1..Len(type_mismatches) : schema[type_mismatches[k]].tuple
             THEN [raised |-> TRUE]
             ELSE [raised |-> FALSE,
                   has_drift |-> \/ missing_fields # {}
                                 \/ extra_fields # {}
                                 \/ type_mismatches # <<>>,
                   confidence |-> [num |-> IF score > 0 THEN score ELSE 0,
                                   den |-> 10 * Cardinality(ExpectedFieldSet)],
                   warnings |-> (IF missing_fields # {} THEN <<"Missing fields">> ELSE <<>>)
                                  \o (IF extra_fields # {} THEN <<"Unexpected fields">> ELSE <<>>)
                                  \o [k \in 1..Len(type_mismatches) |->
                                        type_mismatches[k] \o ": type mismatch"]]

\* The schema a source's detector holds: CoinPaprikaSource creates the
\* detector and never calls set_expected_schema.
ExpectedSchemaAsShipped(s) == COINPAPRIKA_SCHEMA
ExpectedSchema(s) == NoSchema

\* What the detector is given for an item: the runtime types of its values.
TypeOfText(v) == IF v = MissingKey THEN MissingKey ELSE IF v = NoneStr THEN "NoneType" ELSE "str"
TypeOfNumber(x) == IF x = MissingNum THEN MissingKey ELSE IF x = Null THEN "NoneType" ELSE "float"
TypesOf(item) ==
    [coin_id |-> TypeOfText(item.coin_id), rank |-> MissingKey,
     price_usd |-> TypeOfNumber(item.price), extra |-> MissingKey]

\* The pydantic raw schemas: coin_id is a required str of the HTTP schemas,
\* symbol and name are required strs of the csv schema.
PydanticAccepts(s, item) ==
    IF s = "csv"
    THEN item.symbol \notin {NoneStr, MissingKey} /\ item.name \notin {NoneStr, MissingKey}
    ELSE item.coin_id \notin {NoneStr, MissingKey}

\* validate(): CoinPaprikaSource calls the detector inside its try block, so
\* an exception of the detector makes validate return False.
Validate(s, item) ==
    IF s = "coinpaprika" /\ DetectDrift(ExpectedSchema(s), TypesOf(item)).raised
    THEN FALSE
    ELSE PydanticAccepts(s, item)

\* raw_data.get(key, ""): the default replaces an absent key only.
GetOrEmpty(v) == IF v = MissingKey THEN "" ELSE v

\* Decimal(str(x)) of a number: str() writes its decimal digits and Decimal
\* reads them back.
DecimalOfStr(x) == x

\* `Decimal(str(x)) if x else None` of raw_data.get(key): an absent key, None
\* and 0 are all falsy.
NumericOrNone(x) == IF x = MissingNum \/ x = Null \/ x = 0 THEN Null ELSE DecimalOfStr(x)

\* NormalizationService.normalize_*: raw_data.get("symbol", "").upper()
\* raises on a symbol that is None (or the NaN pandas reads from an empty
\* cell), and NormalizedCryptoData rejects a name that is not a str.
NormalizeRaises(s, item) == item.symbol = NoneStr \/ item.name = NoneStr

\* source_id of the normalized record.
SourceId(s, item) ==
    IF s = "csv" THEN "csv_" \o Upper(GetOrEmpty(item.symbol))
    ELSE IF item.coin_id # NoneStr THEN item.coin_id ELSE ""

\* normalize(): the normalized record; data_timestamp is the utcnow() of the
\* call, and the record has no master_coin_id field.
Normalize(s, item, t) ==
    [source |-> s, source_id |-> SourceId(s, item), data_timestamp |-> t,
     master_coin_id |-> Null, symbol |-> Upper(GetOrEmpty(item.symbol)),
     name |-> GetOrEmpty(item.name), price_usd |-> NumericOrNone(item.price)]

\* CSVSource.fetch: df.iloc[last_row:] when last_row > 0
CsvSlice(rows, last_row) ==
    IF last_row > 0
    THEN [k \in 1..(IF Len(rows) > last_row THEN Len(rows) - last_row ELSE 0)
            |-> rows[k + last_row]]
    ELSE rows

\* save_raw(): the rows the archive holds after the inserts of the valid
\* records, ON CONFLICT DO NOTHING on (coin_id, data_timestamp) for the HTTP
\* sources and on (source_file, row_number) for csv.
RawKeyTaken(table, s, coin, rown, t) ==
    \E x \in table :
        /\ x.source = s
        /\ IF s = "csv" THEN x.row_number = rown
           ELSE x.coin_id = coin /\ x.data_timestamp = t

RECURSIVE SaveRawFrom(_, _, _, _, _, _)
SaveRawFrom(table, s, data, k, last_row, t) ==
    IF k > Len(data) THEN table
    ELSE LET item == data[k]
             coin == IF s = "csv" THEN "" ELSE item.coin_id
             rown == IF s = "csv" THEN last_row + (k - 1) + 1 ELSE 0
             row  == [source |-> s, coin_id |-> coin, row_number |-> rown,
                      data_timestamp |-> t, item |-> item]
             next == IF Validate(s, item) /\ ~RawKeyTaken(table, s, coin, rown, t)
                     THEN table \cup {row} ELSE table
         IN  SaveRawFrom(next, s, data, k + 1, last_row, t)

\* ------------------------------------------- normalized_crypto_data upsert
SameKey(x, y) ==
    /\ x.source = y.source
    /\ x.source_id = y.source_id
    /\ x.data_timestamp = y.data_timestamp

UpsertReplacesRow(table, rec) ==
    IF \E x \in table : SameKey(x, rec)
    THEN {IF SameKey(x, rec)
          THEN [x EXCEPT !.master_coin_id = rec.master_coin_id,
                         !.symbol = rec.symbol, !.name = rec.name,
                         !.price_usd = rec.price_usd]
          ELSE x : x \in table}
    ELSE table \cup {[id |-> Cardinality(table) + 1, source |-> rec.source,
                      source_id |-> rec.source_id,
                      data_timestamp |-> rec.data_timestamp,
                      master_coin_id |-> rec.master_coin_id,
                      symbol |-> rec.symbol, name |-> rec.name,
                      price_usd |-> rec.price_usd]}

UpsertAlwaysInserts(table, rec) ==
    table \cup {[id |-> Cardinality(table) + 1, source |-> rec.source,
                 source_id |-> rec.source_id,
                 data_timestamp |-> rec.data_timestamp,
                 master_coin_id |-> rec.master_coin_id,
                 symbol |-> rec.symbol, name |-> rec.name,
                 price_usd |-> rec.price_usd]}

\* INSERT ... ON CONFLICT (source, source_id, data_timestamp) DO UPDATE SET
\* master_coin_id, price_usd, market_cap_usd, volume_24h_usd
Upsert(table, rec) ==
    IF \E x \in table : SameKey(x, rec)
    THEN {IF SameKey(x, rec)
          THEN [x EXCEPT !.master_coin_id = rec.master_coin_id,
                         !.price_usd = rec.price_usd]
          ELSE x : x \in table}
    ELSE table \cup {[id |-> Cardinality(table) + 1, source |-> rec.source,
                      source_id |-> rec.source_id,
                      data_timestamp |-> rec.data_timestamp,
                      master_coin_id |-> rec.master_coin_id,
                      symbol |-> rec.symbol, name |-> rec.name,
                      price_usd |-> rec.price_usd]}

RECURSIVE ApplyUpserts(_, _, _)
ApplyUpserts(table, tx, k) ==
    IF k > Len(tx) THEN table ELSE ApplyUpserts(Upsert(table, tx[k]), tx, k + 1)

\* ---------------------------------------------------------- orchestrator
Logged(rec, w) == [rec EXCEPT !.wlog = Append(@, w)]

\* The `except Exception` of run_etl_for_source: the run becomes failed and
\* goes on to record the failure in the checkpoint.
OnRunException(rec, msg) ==
    [rec EXCEPT !.status = "failed", !.error_message = msg, !.pc = "mark_failure"]

OnRecordExceptionCountsTwice(rec) ==
    [rec EXCEPT !.records_failed = @ + 2, !.excs = @ + 1]

OnRecordExceptionAborts(rec) ==
    [rec EXCEPT !.records_failed = @ + 1, !.excs = @ + 1, !.status = "failed"]

\* The `except Exception` inside the record loop.
OnRecordException(rec) ==
    [rec EXCEPT !.records_failed = @ + 1, !.excs = @ + 1]

\* Leaving the loop body for the next record, or for the commit after the
\* last one.
NextRecord(rec) ==
    [rec EXCEPT !.i = @ + 1,
                !.pc = IF rec.i + 1 = Len(rec.raw_data) THEN "norm_commit" ELSE "normalize"]

\* The new checkpoint value of a successful run.
CheckpointValue(s, t, last_row, fetched) ==
    IF s = "csv" THEN StrOfInt(last_row + fetched) ELSE IsoFormat(t)

RECURSIVE SumFetched(_)
SumFetched(n) == IF n = 0 THEN 0 ELSE run[n].records_fetched + SumFetched(n - 1)
\* the records fetched so far, by all runs
TotalFetched == SumFetched(MaxRuns)

NewRuns == {r \in RunIds : run[r].pc = "new"}
Finished(r) == run[r].pc \in {"done", "raised"}

\* run_all_sources: one task per registered source, in the order of
\* self.sources.
RunAll ==
    /\ cur = 0
    /\ NewRuns = {}
    /\ overlap \/ \A g \in 1..Len(gathers) : gathers[g].state # "pending"
    /\ Len(gathers) < MaxTicks
    /\ LET g == Len(gathers) + 1
           first == Len(Sources) * Len(gathers)
       IN  /\ run' = [r \in RunIds |->
                        IF r \in (first + 1)..(first + Len(Sources))
                        THEN [NoRun EXCEPT !.src = Sources[r - first], !.pc = "new",
                                           !.gather = g]
                        ELSE run[r]]
           /\ gathers' = Append(gathers,
                                [runs |-> (first + 1)..(first + Len(Sources)),
                                 state |-> "pending"])
    /\ UNCHANGED <<resolverVars, apiVars>>
    /\ UNCHANGED <<clock, cur, etl_runs, ckpt, raw, norm, csvFile, live, overlap, unreliable, budget, faults, edits>>

GatherDoneFirstCompleted(g) == \E r \in gathers[g].runs : Finished(r)

\* asyncio.gather(*tasks, return_exceptions=True) is over when every task has
\* returned or raised.
GatherDone(g) == \A r \in gathers[g].runs : Finished(r)

GatherReturn(g) ==
    /\ cur = 0
    /\ gathers[g].state = "pending"
    /\ GatherDone(g)
    /\ gathers' = [gathers EXCEPT ![g].state = "returned"]
    /\ UNCHANGED <<resolverVars, apiVars>>
    /\ UNCHANGED <<clock, run, cur, etl_runs, ckpt, raw, norm, csvFile, live, overlap, unreliable, budget, faults, edits>>

\* run_etl_for_source up to `await source.fetch()`: run_id, started_at and
\* the INSERT of the running row, whose failure is only logged.
Start(r) ==
    /\ cur = 0
    /\ run[r].pc = "new"
    /\ \A q \in NewRuns : r <= q
    /\ \E t \in {clock}, f \in FaultChoice("insert_run", run[r].src) :
        /\ faults' = IF f THEN faults + 1 ELSE faults
        /\ etl_runs' = IF f THEN etl_runs
                       ELSE [etl_runs EXCEPT ![r] =
                               [NoRunRow EXCEPT !.source_name = run[r].src,
                                                !.status = "running",
                                                !.started_at = t]]
        /\ run' = [run EXCEPT ![r] =
                     [(IF f THEN @ ELSE Logged(@, "run_insert"))
                        EXCEPT !.started_at = t,
                               !.ckptAtStart = ckpt[run[r].src],
                               !.pc = IF run[r].src = "csv" THEN "csv_fetch" ELSE "fetching"]]
    /\ cur' = IF run[r].src = "csv" THEN r ELSE 0
    /\ UNCHANGED <<resolverVars, apiVars>>
    /\ UNCHANGED <<clock, gathers, ckpt, raw, norm, csvFile, live, overlap, unreliable, budget, edits>>

FetchedSkipsArchive(rec, data) ==
    [rec EXCEPT !.raw_data = data, !.records_fetched = Len(data),
                !.pc = IF data = <<>> THEN "final" ELSE "normalize"]

\* What the run does with the fetched list.
Fetched(rec, data) ==
    [rec EXCEPT !.raw_data = data, !.records_fetched = Len(data),
                !.pc = IF data = <<>> THEN "final" ELSE "save_raw"]

\* The HTTP fetch returns: the provider's records, or an httpx error.
FetchReturn(r) ==
    /\ cur = 0
    /\ NewRuns = {}
    /\ run[r].pc = "fetching"
    /\ \/ \E data \in {b \in Batches : \/ b = <<>>
                                        \/ /\ run[r].src = live
                                           /\ TotalFetched + Len(b) <= MaxRecords} :
            run' = [run EXCEPT ![r] = Fetched(@, data)]
       \/ /\ run[r].src = live
          /\ run' = [run EXCEPT ![r] =
                       [OnRunException(@, "http_error") EXCEPT !.fetchRaised = TRUE]]
    /\ cur' = r
    /\ UNCHANGED <<resolverVars, apiVars>>
    /\ UNCHANGED <<clock, gathers, etl_runs, ckpt, raw, norm, csvFile, live, overlap, unreliable, budget, faults, edits>>

\* CSVSource.fetch, which never yields the loop.
CsvFetch(r) ==
    /\ cur = r
    /\ run[r].pc = "csv_fetch"
    /\ IF ~csvFile.exists
       THEN /\ run' = [run EXCEPT ![r] = Fetched(@, <<>>)]
            /\ faults' = faults
       ELSE \E f \in FaultChoice("get_checkpoint", run[r].src) :
              LET last == GetLastRowNumber(GetCheckpoint("csv", f))
              IN  /\ faults' = IF f THEN faults + 1 ELSE faults
                  /\ run' = [run EXCEPT ![r] =
                               IF last.raised
                               THEN [OnRunException(@, "KeyError") EXCEPT !.fetchRaised = TRUE]
                               ELSE Fetched(@, CsvSlice(csvFile.rows, last.value))]
    /\ UNCHANGED <<resolverVars, apiVars>>
    /\ UNCHANGED <<clock, cur, gathers, etl_runs, ckpt, raw, norm, csvFile, live, overlap, unreliable, budget, edits>>

\* save_raw(raw_data): one transaction for the inserts of the valid records.
\* The csv adapter first reads the last row number, outside its try block.
\* A failure of the connection or of the commit leaves save_raw (fw); the
\* failure of one INSERT is logged and skipped, and the commit of the aborted
\* transaction then saves nothing (fi).
SaveRaw(r) ==
    /\ cur = r
    /\ run[r].pc = "save_raw"
    /\ LET s == run[r].src IN
       \E t \in {clock}, fr \in (IF s = "csv" THEN FaultChoice("get_checkpoint", s) ELSE {FALSE}) :
         LET last == IF s = "csv" THEN GetLastRowNumber(GetCheckpoint(s, fr))
                     ELSE [raised |-> FALSE, value |-> 0]
             anyValid == \E k \in 1..Len(run[r].raw_data) : Validate(s, run[r].raw_data[k])
         IN  \E fw \in (IF last.raised THEN {FALSE}
                         ELSE FaultAfter("save_raw", s, B2N(fr))),
                fi \in (IF last.raised \/ ~anyValid THEN {FALSE}
                         ELSE FaultAfter("raw_insert", s, B2N(fr))) :
               /\ ~(fw /\ fi)
               /\ faults' = faults + B2N(fr) + B2N(fw) + B2N(fi)
               /\ raw' = IF last.raised \/ fw \/ fi THEN raw
                         ELSE SaveRawFrom(raw, s, run[r].raw_data, 1, last.value, t)
               /\ run' = [run EXCEPT ![r] =
                            IF last.raised THEN OnRunException(@, "KeyError")
                            ELSE IF fw THEN OnRunException(@, "db_error")
                            ELSE [Logged(@, "raw_commit") EXCEPT !.pc = "normalize"]]
    /\ UNCHANGED <<resolverVars, apiVars>>
    /\ UNCHANGED <<clock, cur, gathers, etl_runs, ckpt, norm, csvFile, live, overlap, unreliable, budget, edits>>

\* One iteration of the record loop: normalize the record and execute its
\* upsert in the loop's transaction.  After a failed statement the
\* transaction is aborted and every later statement of it fails too.
NormalizeRecord(r) ==
    /\ cur = r
    /\ run[r].pc = "normalize"
    /\ LET s == run[r].src
           item == run[r].raw_data[run[r].i + 1]
       IN  \E t \in Now, f \in FaultChoice("upsert", run[r].src) :
             LET stmtFault == f \/ run[r].txAborted
                 \* a fault can only hit a statement that is executed
                 counted == f /\ ~NormalizeRaises(s, item) /\ ~run[r].txAborted
             IN  /\ f => counted
                 /\ clock' = t
                 /\ faults' = faults + B2N(counted)
                 /\ run' = [run EXCEPT ![r] =
                              IF NormalizeRaises(s, item)
                              THEN NextRecord(OnRecordException(@))
                              ELSE IF stmtFault
                              THEN NextRecord([OnRecordException(@) EXCEPT !.txAborted = TRUE])
                              ELSE NextRecord(
                                     [Logged(@, "norm_upsert")
                                        EXCEPT !.tx = Append(@, Normalize(s, item, t)),
                                               !.records_processed = @ + 1])]
    /\ UNCHANGED <<resolverVars, apiVars>>
    /\ UNCHANGED <<cur, gathers, etl_runs, ckpt, raw, norm, csvFile, live, overlap, unreliable, budget, edits>>

\* conn.commit() after the loop.  On an aborted transaction the commit ends
\* it as a rollback, without an error.
NormCommit(r) ==
    /\ cur = r
    /\ run[r].pc = "norm_commit"
    /\ \E f \in FaultChoice("commit", run[r].src) :
        LET table == IF f \/ run[r].txAborted THEN norm
                     ELSE ApplyUpserts(norm, run[r].tx, 1)
        IN  /\ faults' = faults + B2N(f)
            /\ norm' = table
            /\ run' = [run EXCEPT ![r] =
                         IF f THEN [OnRunException(@, "db_error") EXCEPT !.tx = <<>>]
                         ELSE [Logged(@, "norm_commit")
                                 EXCEPT !.tx = <<>>, !.pc = "checkpoint",
                                        !.normAtCommit =
                                            {x \in table : x.source = run[r].src}]]
    /\ UNCHANGED <<resolverVars, apiVars>>
    /\ UNCHANGED <<clock, cur, gathers, etl_runs, ckpt, raw, csvFile, live, overlap, unreliable, budget, edits>>

\* The checkpoint advance of a run that fetched records (etl.py 170-184).
AdvanceCheckpoint(r) ==
    /\ cur = r
    /\ run[r].pc = "checkpoint"
    /\ LET s == run[r].src IN
       \E t \in {clock}, fr \in (IF s = "csv" THEN FaultChoice("get_checkpoint", s) ELSE {FALSE}) :
         LET last == IF s = "csv" THEN GetLastRowNumber(GetCheckpoint(s, fr))
                     ELSE [raised |-> FALSE, value |-> 0]
             value == CheckpointValue(s, t, last.value, run[r].records_fetched)
             meta == [run_id |-> r, records_processed |-> run[r].records_processed]
         IN  \E fw \in (IF last.raised THEN {FALSE}
                         ELSE FaultAfter("update_checkpoint", s, B2N(fr))) :
               /\ faults' = faults + B2N(fr) + B2N(fw)
               /\ ckpt' = IF last.raised \/ fw THEN ckpt
                          ELSE [ckpt EXCEPT ![s] = MarkSuccessRow(@, value, t, meta)]
               /\ run' = [run EXCEPT ![r] =
                            IF last.raised THEN OnRunException(@, "KeyError")
                            ELSE IF fw
                            THEN [OnRunException(@, "db_error") EXCEPT !.markRaised = "success"]
                            ELSE [Logged(@, "ckpt_success") EXCEPT !.pc = "final"]]
    /\ UNCHANGED <<resolverVars, apiVars>>
    /\ UNCHANGED <<clock, cur, gathers, etl_runs, norm, raw, csvFile, live, overlap, unreliable, budget, edits>>

\* What the run does when update_checkpoint(success=False) raises: the
\* exception is raised again inside the except block and leaves
\* run_etl_for_source.
OnMarkFailureRaised(rec) == [rec EXCEPT !.pc = "raised", !.markRaised = "failure"]

\* update_checkpoint(success=False) in the except block (etl.py 196-201).
MarkFailure(r) ==
    /\ cur = r
    /\ run[r].pc = "mark_failure"
    /\ \E t \in {clock}, f \in FaultChoice("update_checkpoint", run[r].src) :
        /\ faults' = faults + B2N(f)
        /\ ckpt' = IF f THEN ckpt
                   ELSE [ckpt EXCEPT ![run[r].src] =
                           MarkFailureRow(@, t, run[r].error_message)]
        /\ run' = [run EXCEPT ![r] =
                     IF f THEN OnMarkFailureRaised(@)
                     ELSE [Logged(@, "ckpt_failure") EXCEPT !.pc = "final"]]
        /\ cur' = IF run'[r].pc = "raised" THEN 0 ELSE r
    /\ UNCHANGED <<resolverVars, apiVars>>
    /\ UNCHANGED <<clock, gathers, etl_runs, norm, raw, csvFile, live, overlap, unreliable, budget, edits>>

FinalRowStatusOnly(row, rec, t) ==
    IF row.status = "absent" THEN row
    ELSE [row EXCEPT !.status = rec.status,
                     !.records_fetched = rec.records_fetched,
                     !.records_processed = rec.records_processed,
                     !.records_failed = rec.records_failed,
                     !.error_message = rec.error_message]

\* The final UPDATE of the run's etl_runs row, whose failure is only logged.
FinalRow(row, rec, t) ==
    IF row.status = "absent" THEN row
    ELSE [row EXCEPT !.status = rec.status,
                     !.completed_at = t,
                     !.duration_seconds = t - rec.started_at,
                     !.records_fetched = rec.records_fetched,
                     !.records_processed = rec.records_processed,
                     !.records_failed = rec.records_failed,
                     !.error_message = rec.error_message]

RecordCompletion(r) ==
    /\ cur = r
    /\ run[r].pc = "final"
    /\ \E t \in {clock}, f \in FaultChoice("update_run", run[r].src) :
        /\ faults' = faults + B2N(f)
        /\ etl_runs' = IF f THEN etl_runs
                       ELSE [etl_runs EXCEPT ![r] = FinalRow(@, run[r], t)]
        /\ run' = [run EXCEPT ![r] =
                     [(IF f \/ etl_runs[r].status = "absent" THEN @
                       ELSE Logged(@, "run_update")) EXCEPT !.pc = "done"]]
    /\ cur' = 0
    /\ UNCHANGED <<resolverVars, apiVars>>
    /\ UNCHANGED <<clock, gathers, ckpt, norm, raw, csvFile, live, overlap, unreliable, budget, edits>>

\* The process dies: every run in flight stops where it is, and open
\* transactions are rolled back.
Crash ==
    /\ "process" \in unreliable
    /\ faults < budget
    /\ \E r \in RunIds : run[r].pc \notin {"none", "done", "raised", "dead"}
    /\ faults' = faults + 1
    /\ run' = [r \in RunIds |->
                 IF run[r].pc \in {"none", "done", "raised", "dead"} THEN run[r]
                 ELSE [run[r] EXCEPT !.pc = "dead", !.tx = <<>>]]
    /\ gathers' = [g \in 1..Len(gathers) |->
                     IF gathers[g].state = "pending"
                     THEN [gathers[g] EXCEPT !.state = "dead"] ELSE gathers[g]]
    /\ cur' = 0
    /\ UNCHANGED <<resolverVars, apiVars>>
    /\ UNCHANGED <<clock, etl_runs, ckpt, raw, norm, csvFile, live, overlap, unreliable, budget, edits>>

\* Time passes while the loop is idle.
Tick ==
    /\ cur = 0
    /\ clock < MaxTime
    /\ Len(gathers) > 0
    /\ \/ \E r \in RunIds : run[r].src = live /\ run[r].pc = "fetching"
       \/ \A g \in 1..Len(gathers) : gathers[g].state # "pending"
    /\ clock' = clock + 1
    /\ UNCHANGED <<resolverVars, apiVars>>
    /\ UNCHANGED <<run, cur, gathers, etl_runs, ckpt, raw, norm, csvFile, live, overlap, unreliable, budget, faults,
                   edits>>

\* Between two triggers the csv file is rewritten: a row appended, or the
\* last row removed.
EditCsv ==
    /\ edits < MaxEdits
    /\ cur = 0
    /\ Len(gathers) > 0
    /\ \A g \in 1..Len(gathers) : gathers[g].state # "pending"
    /\ live = "csv"
    /\ csvFile.exists
    /\ \/ /\ Len(csvFile.rows) > 0
          /\ csvFile' = [csvFile EXCEPT !.rows = SubSeq(@, 1, Len(@) - 1)]
       \/ /\ Len(csvFile.rows) < MaxBatch
          /\ \E x \in CsvItems : csvFile' = [csvFile EXCEPT !.rows = Append(@, x)]
    /\ edits' = edits + 1
    /\ UNCHANGED <<resolverVars, apiVars>>
    /\ UNCHANGED <<clock, run, cur, gathers, etl_runs, ckpt, raw, norm, live, overlap, unreliable, budget,
                   faults>>

Next ==
    \/ RunAll
    \/ \E g \in 1..Len(gathers) : GatherReturn(g)
    \/ \E r \in RunIds : Start(r)
    \/ \E r \in RunIds : FetchReturn(r)
    \/ \E r \in RunIds : CsvFetch(r)
    \/ \E r \in RunIds : SaveRaw(r)
    \/ \E r \in RunIds : NormalizeRecord(r)
    \/ \E r \in RunIds : NormCommit(r)
    \/ \E r \in RunIds : AdvanceCheckpoint(r)
    \/ \E r \in RunIds : MarkFailure(r)
    \/ \E r \in RunIds : RecordCompletion(r)
    \/ Crash
    \/ Tick
    \/ EditCsv

Spec == Init /\ [][Next]_vars

\* The behaviours in which the csv file is the live source and the only
\* database calls that fail are the reads of etl_checkpoints, which fail up
\* to MaxReadFaults times.
InitReadFaults ==
    /\ InitResolver
    /\ InitApi
    /\ clock = 0
    /\ run = [r \in RunIds |-> NoRun]
    /\ cur = 0
    /\ gathers = <<>>
    /\ etl_runs = [r \in RunIds |-> NoRunRow]
    /\ ckpt = [s \in SourceNames |-> SeedCheckpoint]
    /\ raw = {}
    /\ norm = {}
    /\ live = "csv"
    /\ overlap = FALSE
    /\ unreliable = {"get_checkpoint", "process"}
    /\ budget = MaxReadFaults
    /\ csvFile \in CsvFiles \ {NoFile}
    /\ faults = 0
    /\ edits = 0

SpecReadFaults == InitReadFaults /\ [][Next]_vars

\* ------------------------------------------------------- entity resolver
\* get_or_create_master_coin, one action per statement.  Each call has its
\* own connection and transaction (READ COMMITTED): a row inserted and not yet
\* committed (owner) is seen by its transaction only, an uncommitted update
\* (upd, upd_name) likewise, and a statement that conflicts with an
\* uncommitted row of another transaction waits for that transaction.
CacheKey(call) == [source |-> call.source, source_id |-> call.source_id]

Visible(table, c) == {x \in table : x.owner \in {0, c}}
NameSeen(x, c) == IF x.upd = c THEN x.upd_name ELSE x.name

\* the call returns id
Return(c, id) ==
    /\ calls' = [calls EXCEPT ![c] = NoCall]
    /\ resolved' = resolved \cup {[key |-> CacheKey(calls[c]), id |-> id]}

\* Entry, and the lookup in the class-level cache (lines 49-51).
GetOrCreateMasterCoin(c) ==
    /\ calls[c].pc = "idle"
    /\ Cardinality(resolved) + Cardinality({d \in Threads : calls[d].pc # "idle"})
         < MaxCalls
    /\ \E k \in MappingKeys, sym \in Symbols, nm \in Names :
         IF source_mapping_cache[k] # Null
         THEN /\ resolved' = resolved \cup {[key |-> k, id |-> source_mapping_cache[k]]}
              /\ calls' = calls
         ELSE /\ calls' = [calls EXCEPT ![c] =
                             [NoCall EXCEPT !.pc = "select_mapping", !.symbol = sym,
                                            !.name = nm, !.source = k.source,
                                            !.source_id = k.source_id]]
              /\ resolved' = resolved
    /\ UNCHANGED <<master_coins, master_coins_id_seq, coin_source_mappings,
                   source_mapping_cache>>
    /\ UNCHANGED <<etlVars, apiVars>>

\* SELECT master_coin_id FROM coin_source_mappings (lines 55-67).
SelectMapping(c) ==
    /\ calls[c].pc = "select_mapping"
    /\ LET found == {m \in Visible(coin_source_mappings, c) :
                        m.source = calls[c].source /\ m.source_id = calls[c].source_id}
       IN  IF found # {}
           THEN LET id == (CHOOSE m \in found : TRUE).master_coin_id
                IN  /\ source_mapping_cache' =
                           [source_mapping_cache EXCEPT ![CacheKey(calls[c])] = id]
                    /\ Return(c, id)
           ELSE /\ calls' = [calls EXCEPT ![c].pc = "find"]
                /\ UNCHANGED <<source_mapping_cache, resolved>>
    /\ UNCHANGED <<master_coins, master_coins_id_seq, coin_source_mappings>>
    /\ UNCHANGED <<etlVars, apiVars>>

\* _find_master_coin_by_symbol: the row of the symbol, accepted when its name
\* is similar enough.
FindMasterCoinBySymbol(c) ==
    /\ calls[c].pc = "find"
    /\ LET found == {x \in Visible(master_coins, c) : x.symbol = Upper(calls[c].symbol)}
           hit == found # {} /\
                  \E x \in found :
                      Similarity(Lower(calls[c].name), Lower(NameSeen(x, c)))
                        > SimilarityThreshold
       IN  calls' = [calls EXCEPT ![c] =
                       IF hit
                       THEN [@ EXCEPT !.pc = "insert_mapping",
                                      !.master_coin_id = (CHOOSE x \in found : TRUE).id]
                       ELSE [@ EXCEPT !.pc = "create"]]
    /\ UNCHANGED <<master_coins, master_coins_id_seq, coin_source_mappings,
                   source_mapping_cache, resolved>>
    /\ UNCHANGED <<etlVars, apiVars>>

CreateMasterCoinAlwaysInserts(c) ==
    /\ calls[c].pc = "create"
    /\ master_coins' = master_coins \cup
           {[id |-> master_coins_id_seq, symbol |-> Upper(calls[c].symbol),
             name |-> calls[c].name,
             canonical_id |-> CanonicalId(calls[c].name),
             owner |-> c, upd |-> 0, upd_name |-> "",
                            updated_at |-> Null, upd_at |-> Null]}
    /\ calls' = [calls EXCEPT ![c].pc = "insert_mapping",
                              ![c].master_coin_id = master_coins_id_seq]
    /\ master_coins_id_seq' = master_coins_id_seq + 1
    /\ UNCHANGED <<coin_source_mappings, source_mapping_cache, resolved>>
    /\ UNCHANGED <<etlVars, apiVars>>

\* _create_master_coin with ON CONFLICT (symbol) DO NOTHING in place of the
\* update: the existing row is returned as it is.
CreateMasterCoinKeepsName(c) ==
    /\ calls[c].pc = "create"
    /\ LET sym == Upper(calls[c].symbol)
           same == {x \in master_coins : x.symbol = sym}
       IN  /\ \A x \in same : x.owner \in {0, c} /\ x.upd \in {0, c}
           /\ IF same = {}
              THEN /\ master_coins' = master_coins \cup
                          {[id |-> master_coins_id_seq, symbol |-> sym,
                            name |-> calls[c].name,
                            canonical_id |-> CanonicalId(calls[c].name),
                            owner |-> c, upd |-> 0, upd_name |-> "",
                            updated_at |-> Null, upd_at |-> Null]}
                   /\ calls' = [calls EXCEPT ![c].pc = "insert_mapping",
                                             ![c].master_coin_id = master_coins_id_seq]
              ELSE /\ master_coins' = master_coins
                   /\ calls' = [calls EXCEPT ![c].pc = "insert_mapping",
                                             ![c].master_coin_id =
                                                 (CHOOSE x \in same : TRUE).id]
    /\ master_coins_id_seq' = master_coins_id_seq + 1
    /\ UNCHANGED <<coin_source_mappings, source_mapping_cache, resolved>>
    /\ UNCHANGED <<etlVars, apiVars>>

\* _create_master_coin: INSERT INTO master_coins ... ON CONFLICT (symbol) DO
\* UPDATE SET name ... RETURNING id.  nextval() is taken before the conflict
\* is found.  The INSERT gives updated_at no value (Null stands for what the
\* column then holds); the update sets it to CURRENT_TIMESTAMP, kept in
\* upd_at until the commit.
CreateMasterCoin(c) ==
    /\ calls[c].pc = "create"
    /\ LET sym == Upper(calls[c].symbol)
           same == {x \in master_coins : x.symbol = sym}
       IN  /\ \A x \in same : x.owner \in {0, c} /\ x.upd \in {0, c}
           /\ IF same = {}
              THEN /\ master_coins' = master_coins \cup
                          {[id |-> master_coins_id_seq, symbol |-> sym,
                            name |-> calls[c].name,
                            canonical_id |-> CanonicalId(calls[c].name),
                            owner |-> c, upd |-> 0, upd_name |-> "",
                            updated_at |-> Null, upd_at |-> Null]}
                   /\ calls' = [calls EXCEPT ![c].pc = "insert_mapping",
                                             ![c].master_coin_id = master_coins_id_seq]
              ELSE /\ master_coins' =
                          {IF x \in same
                           THEN [x EXCEPT !.upd = c, !.upd_name = calls[c].name,
                                           !.upd_at = clock]
                           ELSE x : x \in master_coins}
                   /\ calls' = [calls EXCEPT ![c].pc = "insert_mapping",
                                             ![c].master_coin_id =
                                                 (CHOOSE x \in same : TRUE).id]
    /\ master_coins_id_seq' = master_coins_id_seq + 1
    /\ UNCHANGED <<coin_source_mappings, source_mapping_cache, resolved>>
    /\ UNCHANGED <<etlVars, apiVars>>

InsertMappingSkips(c) ==
    /\ calls[c].pc = "insert_mapping"
    /\ calls' = [calls EXCEPT ![c].pc = "commit"]
    /\ UNCHANGED <<master_coins, master_coins_id_seq, coin_source_mappings,
                   source_mapping_cache, resolved>>
    /\ UNCHANGED <<etlVars, apiVars>>

\* INSERT INTO coin_source_mappings ... ON CONFLICT (source, source_id) DO
\* NOTHING (lines 77-88).
InsertMapping(c) ==
    /\ calls[c].pc = "insert_mapping"
    /\ LET same == {m \in coin_source_mappings :
                       m.source = calls[c].source /\ m.source_id = calls[c].source_id}
       IN  /\ \A m \in same : m.owner \in {0, c}
           /\ coin_source_mappings' =
                  IF same # {} THEN coin_source_mappings
                  ELSE coin_source_mappings \cup
                         {[source |-> calls[c].source, source_id |-> calls[c].source_id,
                           master_coin_id |-> calls[c].master_coin_id, owner |-> c]}
    /\ calls' = [calls EXCEPT ![c].pc = "commit"]
    /\ UNCHANGED <<master_coins, master_coins_id_seq, source_mapping_cache, resolved>>
    /\ UNCHANGED <<etlVars, apiVars>>

CommitMappingRollsBack(c) ==
    /\ calls[c].pc = "commit"
    /\ master_coins' =
           {[x EXCEPT !.upd = IF @ = c THEN 0 ELSE @,
                      !.upd_name = IF x.upd = c THEN "" ELSE @,
                      !.upd_at = IF x.upd = c THEN Null ELSE @] :
              x \in {y \in master_coins : y.owner # c}}
    /\ coin_source_mappings' = {m \in coin_source_mappings : m.owner # c}
    /\ calls' = [calls EXCEPT ![c].pc = "update_cache"]
    /\ UNCHANGED <<master_coins_id_seq, source_mapping_cache, resolved>>
    /\ UNCHANGED <<etlVars, apiVars>>

\* conn.commit() (line 89)
CommitMapping(c) ==
    /\ calls[c].pc = "commit"
    /\ master_coins' =
           {[x EXCEPT !.owner = IF @ = c THEN 0 ELSE @,
                      !.name = IF x.upd = c THEN x.upd_name ELSE @,
                      !.upd = IF @ = c THEN 0 ELSE @,
                      !.upd_name = IF x.upd = c THEN "" ELSE @,
                      !.updated_at = IF x.upd = c THEN x.upd_at ELSE @,
                      !.upd_at = IF x.upd = c THEN Null ELSE @] : x \in master_coins}
    /\ coin_source_mappings' =
           {[m EXCEPT !.owner = IF @ = c THEN 0 ELSE @] : m \in coin_source_mappings}
    /\ calls' = [calls EXCEPT ![c].pc = "update_cache"]
    /\ UNCHANGED <<master_coins_id_seq, source_mapping_cache, resolved>>
    /\ UNCHANGED <<etlVars, apiVars>>

\* The cache update and the return (lines 92-93).
UpdateCache(c) ==
    /\ calls[c].pc = "update_cache"
    /\ source_mapping_cache' =
           [source_mapping_cache EXCEPT ![CacheKey(calls[c])] = calls[c].master_coin_id]
    /\ Return(c, calls[c].master_coin_id)
    /\ UNCHANGED <<master_coins, master_coins_id_seq, coin_source_mappings>>
    /\ UNCHANGED <<etlVars, apiVars>>

\* clear_cache(): the class-level mapping cache is emptied (lines 22-26).
ClearCache ==
    /\ \E k \in MappingKeys : source_mapping_cache[k] # Null
    /\ source_mapping_cache' = [k \in MappingKeys |-> Null]
    /\ UNCHANGED <<master_coins, master_coins_id_seq, coin_source_mappings, calls,
                   resolved>>
    /\ UNCHANGED <<etlVars, apiVars>>

NextResolver ==
    \/ \E c \in Threads : GetOrCreateMasterCoin(c)
    \/ \E c \in Threads : SelectMapping(c)
    \/ \E c \in Threads : FindMasterCoinBySymbol(c)
    \/ \E c \in Threads : CreateMasterCoin(c)
    \/ \E c \in Threads : InsertMapping(c)
    \/ \E c \in Threads : CommitMapping(c)
    \/ \E c \in Threads : UpdateCache(c)
    \/ ClearCache

\* No call is in progress.
AllIdle == \A c \in Threads : calls[c].pc = "idle"

\* The resolver called one call at a time, with clear_cache between calls.
ResolveAlone(c) == AllIdle /\ GetOrCreateMasterCoin(c)
ClearCacheBetweenCalls == AllIdle /\ ClearCache

NextResolverSeq ==
    \/ \E c \in Threads : ResolveAlone(c)
    \/ \E c \in Threads : SelectMapping(c)
    \/ \E c \in Threads : FindMasterCoinBySymbol(c)
    \/ \E c \in Threads : CreateMasterCoin(c)
    \/ \E c \in Threads : InsertMapping(c)
    \/ \E c \in Threads : CommitMapping(c)
    \/ \E c \in Threads : UpdateCache(c)
    \/ ClearCacheBetweenCalls

\* The resolver called from two threads of one process, on an empty database.
InitResolve == Init /\ live = "coinpaprika"

SpecResolve == InitResolve /\ [][NextResolver]_vars

SpecResolveSeq == InitResolve /\ [][NextResolverSeq]_vars

\* Time passes between two calls of the resolver.
TickBetweenCalls ==
    /\ AllIdle
    /\ clock < MaxTime
    /\ clock' = clock + 1
    /\ UNCHANGED <<run, cur, gathers, etl_runs, ckpt, raw, norm, csvFile, live,
                   overlap, unreliable, budget, faults, edits>>
    /\ UNCHANGED <<resolverVars, apiVars>>

NextResolverTimed ==
    \/ \E c \in Threads : ResolveAlone(c)
    \/ \E c \in Threads : SelectMapping(c)
    \/ \E c \in Threads : FindMasterCoinBySymbol(c)
    \/ \E c \in Threads : CreateMasterCoin(c)
    \/ \E c \in Threads : InsertMapping(c)
    \/ \E c \in Threads : CommitMapping(c)
    \/ \E c \in Threads : UpdateCache(c)
    \/ ClearCacheBetweenCalls
    \/ TickBetweenCalls

\* The resolver called one call at a time, with the clock moving on.
SpecResolveTimed == InitResolve /\ [][NextResolverTimed]_vars

\* ------------------------------------------------------------ GET /data
\* The records the loop of run_etl_for_source normalizes and upserts here:
\* two versions of one coinpaprika coin, with different symbols and prices,
\* and two versions of one csv row.
DataItems ==
    { [coin_id |-> "btc", symbol |-> "BTC", name |-> "Bitcoin", price |-> 1],
      [coin_id |-> "btc", symbol |-> "XBT", name |-> "Bitcoin", price |-> 2] }
DataCsvItems ==
    { [coin_id |-> NoneStr, symbol |-> "ETH", name |-> "Ethereum", price |-> 1],
      [coin_id |-> NoneStr, symbol |-> "ETH", name |-> "Ethereum", price |-> 2] }
UpsertInputs ==
    {Normalize("coinpaprika", item, t) : item \in DataItems, t \in 0..MaxTime}
      \cup {Normalize("csv", item, t) : item \in DataCsvItems, t \in 0..MaxTime}

\* One iteration of the loop over raw_data, committed: normalize and upsert.
\* The table is filled before it is read: no upsert follows a request.
UpsertRecord ==
    /\ request = NoRequest
    /\ \E rec \in UpsertInputs : norm' = Upsert(norm, rec)
    /\ UNCHANGED <<clock, run, cur, gathers, etl_runs, ckpt, raw, csvFile, live,
                   overlap, unreliable, budget, faults, edits>>
    /\ UNCHANGED <<resolverVars, apiVars>>

\* The query parameters of /data: page >= 1 and 1 <= page_size (Query(ge=1)),
\* the optional filters absent (None) or given.
DataRequests ==
    [op : {"data"}, page : 1..MaxPage, page_size : 1..MaxPageSize,
     source : {NoneStr, "csv"}, symbol : {NoneStr, "btc"},
     start_date : {Null, MaxTime}, end_date : {Null}]

\* WHERE source = :source AND UPPER(symbol) = UPPER(:symbol) AND
\* data_timestamp >= :start_date AND data_timestamp <= :end_date, each clause
\* present when its parameter is.
Matches(row, req) ==
    /\ req.source = NoneStr \/ row.source = req.source
    /\ req.symbol = NoneStr \/ Upper(row.symbol) = Upper(Upper(req.symbol))
    /\ req.start_date = Null \/ row.data_timestamp >= req.start_date
    /\ req.end_date = Null \/ row.data_timestamp <= req.end_date

\* ORDER BY data_timestamp DESC, id DESC
RECURSIVE OrderByTimestampIdDesc(_)
OrderByTimestampIdDesc(rows) ==
    IF rows = {} THEN <<>>
    ELSE LET first == CHOOSE x \in rows :
                          \A y \in rows :
                              \/ y.data_timestamp < x.data_timestamp
                              \/ y.data_timestamp = x.data_timestamp /\ y.id <= x.id
         IN  <<first>> \o OrderByTimestampIdDesc(rows \ {first})

\* LIMIT :limit OFFSET :offset
LimitOffset(q, limit, offset) ==
    SubSeq(q, offset + 1, IF offset + limit < Len(q) THEN offset + limit ELSE Len(q))

\* math.ceil(a / b) of a non-negative a and a positive b
Ceil(a, b) == (a + b - 1) \div b

\* The columns /data selects.
DataRow(row) ==
    [id |-> row.id, source |-> row.source, symbol |-> row.symbol, name |-> row.name,
     price_usd |-> row.price_usd, data_timestamp |-> row.data_timestamp]

GetDataOffByOnePage(table, req) ==
    LET matching == {row \in table : Matches(row, req)}
        total_records == Cardinality(matching)
        total_pages == IF total_records > 0 THEN Ceil(total_records, req.page_size) ELSE 0
        offset == req.page * req.page_size
        rows == LimitOffset(OrderByTimestampIdDesc(matching), req.page_size, offset)
    IN  [op |-> "data", status |-> 200,
         data |-> [k \in 1..Len(rows) |-> DataRow(rows[k])],
         page |-> req.page, page_size |-> req.page_size,
         total_records |-> total_records, total_pages |-> total_pages]

\* get_data: the count, the page arithmetic and the page of rows.
GetData(table, req) ==
    LET matching == {row \in table : Matches(row, req)}
        total_records == Cardinality(matching)
        total_pages == IF total_records > 0 THEN Ceil(total_records, req.page_size) ELSE 0
        offset == (req.page - 1) * req.page_size
        rows == LimitOffset(OrderByTimestampIdDesc(matching), req.page_size, offset)
    IN  [op |-> "data", status |-> 200,
         data |-> [k \in 1..Len(rows) |-> DataRow(rows[k])],
         page |-> req.page, page_size |-> req.page_size,
         total_records |-> total_records, total_pages |-> total_pages]

\* One request is studied in a behaviour.
GetDataCall ==
    /\ request = NoRequest
    /\ \E req \in DataRequests :
           /\ request' = req
           /\ response' = GetData(norm, req)
    /\ UNCHANGED <<etlVars, resolverVars>>

NextData == UpsertRecord \/ GetDataCall

InitData == Init /\ live = "coinpaprika"

SpecData == InitData /\ [][NextData]_vars

\* ------------------------------------------------- normalize, one record
\* The dicts a normalizer can be given: symbol and name present, empty,
\* None, or absent; a numeric field absent, None, zero or positive.
RawRecords ==
    [coin_id : {"btc"},
     symbol : {"BTC", "btc", "", NoneStr, MissingKey},
     name : {"Bitcoin", "", NoneStr, MissingKey},
     price : {MissingNum, Null, 0, 1, 2}]
NormalizeRequests == [op : {"normalize"}, source : SourceNames, item : RawRecords]

\* source.normalize(item): the normalized record, or the exception.
NormalizeCall ==
    /\ request.op = "normalize"
    /\ response = NoResponse
    /\ response' =
           IF NormalizeRaises(request.source, request.item)
           THEN [op |-> "normalize", raised |-> TRUE]
           ELSE [op |-> "normalize", raised |-> FALSE,
                 value |-> Normalize(request.source, request.item, clock)]
    /\ UNCHANGED <<etlVars, resolverVars, request>>

InitNormalize ==
    /\ InitResolver
    /\ request \in NormalizeRequests
    /\ response = NoResponse
    /\ clock = 0
    /\ run = [r \in RunIds |-> NoRun]
    /\ cur = 0
    /\ gathers = <<>>
    /\ etl_runs = [r \in RunIds |-> NoRunRow]
    /\ ckpt = [s \in SourceNames |-> SeedCheckpoint]
    /\ raw = {}
    /\ norm = {}
    /\ live = request.source
    /\ overlap = FALSE
    /\ unreliable = {}
    /\ budget = 0
    /\ csvFile = NoFile
    /\ faults = 0
    /\ edits = 0

SpecNormalize == InitNormalize /\ [][NormalizeCall]_vars

\* --------------------------------------- detect_drift and validate, one call
DetectRequests ==
    [op : {"detect"}, schema : {NoSchema, PLAIN_SCHEMA, COINPAPRIKA_SCHEMA},
     data : DriftRecords]
ValidateItems ==
    [coin_id : {"btc", NoneStr}, symbol : {"BTC", NoneStr},
     name : {"Bitcoin", NoneStr}, price : {MissingNum, Null, 1}]
ValidateRequests == [op : {"validate"}, source : SourceNames, item : ValidateItems]

DetectCall ==
    /\ request.op = "detect"
    /\ response = NoResponse
    /\ response' = [op |-> "detect", result |-> DetectDrift(request.schema, request.data)]
    /\ UNCHANGED <<etlVars, resolverVars, request>>

ValidateCall ==
    /\ request.op = "validate"
    /\ response = NoResponse
    /\ response' = [op |-> "validate", ok |-> Validate(request.source, request.item)]
    /\ UNCHANGED <<etlVars, resolverVars, request>>

NextDrift == DetectCall \/ ValidateCall

InitDrift ==
    /\ InitResolver
    /\ request \in DetectRequests \cup ValidateRequests
    /\ response = NoResponse
    /\ clock = 0
    /\ run = [r \in RunIds |-> NoRun]
    /\ cur = 0
    /\ gathers = <<>>
    /\ etl_runs = [r \in RunIds |-> NoRunRow]
    /\ ckpt = [s \in SourceNames |-> SeedCheckpoint]
    /\ raw = {}
    /\ norm = {}
    /\ live = "coinpaprika"
    /\ overlap = FALSE
    /\ unreliable = {}
    /\ budget = 0
    /\ csvFile = NoFile
    /\ faults = 0
    /\ edits = 0

SpecDrift == InitDrift /\ [][NextDrift]_vars

\* -------------------------------------------- /compare-runs and /anomalies
\* `x or 0` of a column value: NULL and 0 give 0.
OrZero(x) == IF x = Null THEN 0 ELSE x

Abs(x) == IF x < 0 THEN 0 - x ELSE x

\* round(n / d, 0) for d > 0, ties to the even integer.
RoundHalfEven(n, d) ==
    LET q == n \div d
        r == n % d
    IN  IF 2 * r < d THEN q
        ELSE IF 2 * r > d THEN q + 1
        ELSE IF q % 2 = 0 THEN q ELSE q + 1

\* round(diff / base * 100, 2) if base > 0 else 0, in hundredths of a percent.
PercentageRounded(diff, base) ==
    IF base > 0 THEN RoundHalfEven(diff * 10000, base) ELSE 0

\* abs(diff / base * 100) > limit, the percentage being 0 when base is 0.
PercentageExceeds(diff, base, limit) == base > 0 /\ Abs(diff) * 100 > limit * base

RecordsThreshold == 50
DurationThreshold == 100

\* The rows of etl_runs with one of the two ids.
RowsWithId(table, ids) == {r \in RunIds : r \in ids /\ table[r].status # "absent"}

\* An exception that leaves the route: global_exception_handler answers 500.
InternalServerError(op) == [op |-> op, status |-> 500]

CompareRunsReversed(table, run1_id, run2_id) ==
    IF Cardinality(RowsWithId(table, {run1_id, run2_id})) # 2
    THEN InternalServerError("compare")
    ELSE IF table[run1_id].source_name # table[run2_id].source_name
    THEN InternalServerError("compare")
    ELSE LET records1 == OrZero(table[run1_id].records_processed)
             records2 == OrZero(table[run2_id].records_processed)
             duration1 == OrZero(table[run1_id].duration_seconds)
             duration2 == OrZero(table[run2_id].duration_seconds)
             records_diff == records1 - records2
             duration_diff == duration1 - duration2
         IN  [op |-> "compare", status |-> 200,
              source_name |-> table[run1_id].source_name,
              records_diff |-> records_diff,
              duration_diff_seconds |-> duration_diff,
              records_diff_percentage |-> PercentageRounded(records_diff, records1),
              duration_diff_percentage |-> PercentageRounded(duration_diff, duration1),
              anomaly_detected |->
                  \/ PercentageExceeds(records_diff, records1, RecordsThreshold)
                  \/ PercentageExceeds(duration_diff, duration1, DurationThreshold)
                  \/ records2 = 0,
              anomaly_reasons |->
                  (IF PercentageExceeds(records_diff, records1, RecordsThreshold)
                   THEN <<"Records changed">> ELSE <<>>)
                  \o (IF PercentageExceeds(duration_diff, duration1, DurationThreshold)
                      THEN <<"Duration changed">> ELSE <<>>)
                  \o (IF records2 = 0 THEN <<"No records processed in second run">> ELSE <<>>)]

\* compare_runs: the ValueErrors of a missing run and of different sources
\* are re-raised by the route's except block.
CompareRuns(table, run1_id, run2_id) ==
    IF Cardinality(RowsWithId(table, {run1_id, run2_id})) # 2
    THEN InternalServerError("compare")
    ELSE IF table[run1_id].source_name # table[run2_id].source_name
    THEN InternalServerError("compare")
    ELSE LET records1 == OrZero(table[run1_id].records_processed)
             records2 == OrZero(table[run2_id].records_processed)
             duration1 == OrZero(table[run1_id].duration_seconds)
             duration2 == OrZero(table[run2_id].duration_seconds)
             records_diff == records2 - records1
             duration_diff == duration2 - duration1
         IN  [op |-> "compare", status |-> 200,
              source_name |-> table[run1_id].source_name,
              records_diff |-> records_diff,
              duration_diff_seconds |-> duration_diff,
              records_diff_percentage |-> PercentageRounded(records_diff, records1),
              duration_diff_percentage |-> PercentageRounded(duration_diff, duration1),
              anomaly_detected |->
                  \/ PercentageExceeds(records_diff, records1, RecordsThreshold)
                  \/ PercentageExceeds(duration_diff, duration1, DurationThreshold)
                  \/ records2 = 0,
              anomaly_reasons |->
                  (IF PercentageExceeds(records_diff, records1, RecordsThreshold)
                   THEN <<"Records changed">> ELSE <<>>)
                  \o (IF PercentageExceeds(duration_diff, duration1, DurationThreshold)
                      THEN <<"Duration changed">> ELSE <<>>)
                  \o (IF records2 = 0 THEN <<"No records processed in second run">> ELSE <<>>)]

\* WHERE started_at >= utcnow() - timedelta(hours), the runs of one source.
RunsInWindow(table, s, hours, now) ==
    {r \in RunIds : /\ table[r].status # "absent"
                    /\ table[r].source_name = s
                    /\ table[r].started_at >= now - hours}

\* ORDER BY source_name, started_at DESC: index 0 of a source's group is a
\* run with the greatest started_at; the order among equal started_at is
\* the database's choice.
LatestCandidates(table, runs) ==
    {r \in runs : \A q \in runs : table[q].started_at <= table[r].started_at}

RECURSIVE SumOver(_, _, _)
SumOver(table, runs, column) ==
    IF runs = {} THEN 0
    ELSE LET r == CHOOSE q \in runs : TRUE
         IN  OrZero(table[r][column]) + SumOver(table, runs \ {r}, column)

\* abs(latest - avg) / avg * 100 > limit when avg > 0, avg = total / count
DeviationExceeds(latest, total, count, limit) ==
    total > 0 /\ Abs(latest * count - total) * 100 > limit * total

\* The anomalies of a source's latest run against the historical runs.
AnomaliesOf(table, latest, historical) ==
    (IF table[latest].status = "failed" THEN <<"ETL run failed">> ELSE <<>>)
    \o (IF DeviationExceeds(OrZero(table[latest].records_processed),
                            SumOver(table, historical, "records_processed"),
                            Cardinality(historical), RecordsThreshold)
        THEN <<"Records processed deviates">> ELSE <<>>)
    \o (IF DeviationExceeds(OrZero(table[latest].duration_seconds),
                            SumOver(table, historical, "duration_seconds"),
                            Cardinality(historical), DurationThreshold)
        THEN <<"Duration deviates">> ELSE <<>>)
    \o (IF OrZero(table[latest].records_failed) * 10 > OrZero(table[latest].records_processed)
        THEN <<"High failure rate">> ELSE <<>>)

Severity(table, latest, anomalies) ==
    IF table[latest].status = "failed" \/ Len(anomalies) >= 3 THEN "high"
    ELSE IF Len(anomalies) >= 2 THEN "medium"
    ELSE "low"

DetectAnomaliesAverageAll(table, hours, now, first) ==
    [op |-> "anomalies", status |-> 200,
     reports |->
        {[run_id |-> first[s], source_name |-> s,
          anomalies |-> AnomaliesOf(table, first[s], RunsInWindow(table, s, hours, now)),
          severity |-> Severity(table, first[s],
                         AnomaliesOf(table, first[s], RunsInWindow(table, s, hours, now)))] :
            s \in {x \in SourceNames :
                     /\ Cardinality(RunsInWindow(table, x, hours, now)) >= 2
                     /\ AnomaliesOf(table, first[x],
                                    RunsInWindow(table, x, hours, now)) # <<>>}}]

\* detect_anomalies: one report per source that has at least 2 runs in the
\* window and a non-empty list of anomalies; first[s] is index 0 of the
\* group of s.
DetectAnomalies(table, hours, now, first) ==
    [op |-> "anomalies", status |-> 200,
     reports |->
        {[run_id |-> first[s], source_name |-> s,
          anomalies |-> AnomaliesOf(table, first[s],
                                    RunsInWindow(table, s, hours, now) \ {first[s]}),
          severity |-> Severity(table, first[s],
                         AnomaliesOf(table, first[s],
                                     RunsInWindow(table, s, hours, now) \ {first[s]}))] :
            s \in {x \in SourceNames :
                     /\ Cardinality(RunsInWindow(table, x, hours, now)) >= 2
                     /\ AnomaliesOf(table, first[x],
                                    RunsInWindow(table, x, hours, now) \ {first[x]}) # <<>>}}]

\* The runs the table holds here.
MaxRunRecords == 3
MaxDuration == 3
MaxHours == 2
MaxStoredRuns == 3
RunShapes ==
    [status : {"success", "failed"},
     records_processed : {10 * k : k \in 0..MaxRunRecords},
     duration_seconds : {0, 1, MaxDuration},
     records_failed : {0, 2}]
RunningShape ==
    [status |-> "running", records_processed |-> Null, duration_seconds |-> Null,
     records_failed |-> Null]
HistoricalShapes ==
    [status : {"success"}, records_processed : {0, 10, 20},
     duration_seconds : {0, 1}, records_failed : {0}]

\* The etl_runs row of a run of source s with the given outcome.
RunRow(s, shape, started) ==
    [source_name |-> s, status |-> shape.status, started_at |-> started,
     completed_at |-> IF shape.status = "running" THEN Null
                      ELSE started + shape.duration_seconds,
     duration_seconds |-> shape.duration_seconds,
     records_fetched |-> IF shape.status = "running" THEN Null
                         ELSE shape.records_processed + shape.records_failed,
     records_processed |-> shape.records_processed,
     records_failed |-> shape.records_failed,
     error_message |-> IF shape.status = "failed" THEN "error" ELSE NoneStr]

RunTables ==
    {[r \in RunIds |-> IF r = 1 THEN a ELSE IF r = 2 THEN b ELSE IF r = 3 THEN c
                       ELSE NoRunRow] :
        a \in {NoRunRow} \cup {RunRow("coinpaprika", shape, MaxHours) :
                                 shape \in RunShapes \cup {RunningShape}},
        b \in {NoRunRow} \cup {RunRow("coinpaprika", shape, t) :
                                 shape \in HistoricalShapes, t \in {MaxHours - 1, MaxHours}},
        c \in {NoRunRow} \cup {RunRow(s, shape, t) :
                                 s \in {"coinpaprika", "csv"}, shape \in HistoricalShapes,
                                 t \in {0, MaxHours - 1}}}

\* The runs that can be index 0 of the group of s (run 1 stands for the
\* absent index 0 of an empty group).
FirstOfGroup(table, s, hours, now) ==
    IF RunsInWindow(table, s, hours, now) = {} THEN {1}
    ELSE LatestCandidates(table, RunsInWindow(table, s, hours, now))

CompareRunsCall ==
    /\ request = NoRequest
    /\ \E run1_id, run2_id \in 1..(MaxStoredRuns + 1) :
           /\ request' = [op |-> "compare", run1_id |-> run1_id, run2_id |-> run2_id]
           /\ response' = CompareRuns(etl_runs, run1_id, run2_id)
    /\ UNCHANGED <<etlVars, resolverVars>>

DetectAnomaliesCall ==
    /\ request = NoRequest
    /\ \E hours \in 1..MaxHours :
         \E f1 \in FirstOfGroup(etl_runs, Sources[1], hours, clock),
            f2 \in FirstOfGroup(etl_runs, Sources[2], hours, clock),
            f3 \in FirstOfGroup(etl_runs, Sources[3], hours, clock) :
           /\ request' = [op |-> "anomalies", hours |-> hours]
           /\ response' = DetectAnomalies(etl_runs, hours, clock,
                                          [s \in SourceNames |->
                                             IF s = Sources[1] THEN f1
                                             ELSE IF s = Sources[2] THEN f2 ELSE f3])
    /\ UNCHANGED <<etlVars, resolverVars>>

NextRuns == CompareRunsCall \/ DetectAnomaliesCall

InitRuns ==
    /\ InitResolver
    /\ InitApi
    /\ clock = MaxHours
    /\ run = [r \in RunIds |-> NoRun]
    /\ cur = 0
    /\ gathers = <<>>
    /\ etl_runs \in RunTables
    /\ ckpt = [s \in SourceNames |-> SeedCheckpoint]
    /\ raw = {}
    /\ norm = {}
    /\ live = "coinpaprika"
    /\ overlap = FALSE
    /\ unreliable = {}
    /\ budget = 0
    /\ csvFile = NoFile
    /\ faults = 0
    /\ edits = 0

SpecRuns == InitRuns /\ [][NextRuns]_vars

\* ------------------------------------------------------- save_raw, alone
\* saved_count of save_raw: it is incremented after every execute() of a valid
\* record that did not raise, and an INSERT ... ON CONFLICT DO NOTHING that
\* inserts nothing does not raise.
SavedCount(s, data) ==
    Cardinality({k \in 1..Len(data) : Validate(s, data[k])})

SaveRawBatches(s) == IF s = "csv" THEN SeqsUpTo(CsvItems, MaxBatch) ELSE Batches

\* source.save_raw(data) on the archive as it is, at time t.  The csv adapter
\* reads the last row number first; the read of the checkpoint may fail (f).
SaveRawCall ==
    /\ Cardinality(raw) < MaxRecords
    /\ \E s \in SourceNames, t \in 0..MaxTime, f \in BOOLEAN :
       \E data \in SaveRawBatches(s) :
         LET last == IF s = "csv" /\ data # <<>>
                     THEN GetLastRowNumber(GetCheckpoint(s, f))
                     ELSE [raised |-> FALSE, value |-> 0]
         IN  /\ s # "csv" => ~f
             /\ request' = [op |-> "save_raw", source |-> s, data |-> data]
             /\ response' = [op |-> "save_raw", raised |-> last.raised,
                             saved_count |-> IF last.raised THEN 0 ELSE SavedCount(s, data)]
             /\ raw' = IF last.raised THEN raw
                       ELSE SaveRawFrom(raw, s, data, 1, last.value, t)
    /\ UNCHANGED <<clock, run, cur, gathers, etl_runs, ckpt, norm, csvFile, live,
                   overlap, unreliable, budget, faults, edits>>
    /\ UNCHANGED resolverVars

SpecSaveRaw == InitData /\ [][SaveRawCall]_vars
\* ------------------------------ normalize_coinpaprika, the nested quotes
\* The three money fields of a coinpaprika record: at top level each is
\* absent, None or a number; the key "quotes" is absent, or holds under USD
\* the three nested values (absent or a number).
TopValues == {MissingNum, Null, 0, 1}
NestedValues == {MissingNum, 3}
NoQuotes == [present |-> FALSE, price |-> MissingNum, volume_24h |-> MissingNum,
             market_cap |-> MissingNum]
QuotesValues ==
    {NoQuotes} \cup [present : {TRUE}, price : NestedValues,
                     volume_24h : NestedValues, market_cap : NestedValues]
QuotesRecords ==
    [price_usd : TopValues, volume_24h_usd : TopValues, market_cap_usd : TopValues,
     quotes : QuotesValues]

\* dict.get(key): None for an absent key
GetOrNone(v) == IF v = MissingNum THEN Null ELSE v

\* normalize_coinpaprika, lines 20-42: the price falls back to the nested
\* quote by itself; volume and market cap are both taken from the nested
\* quote when the top-level volume is None.
NormalizeCoinpaprika(raw_data) ==
    LET top_price == GetOrNone(raw_data.price_usd)
        price_usd == IF top_price = Null /\ raw_data.quotes.present
                     THEN GetOrNone(raw_data.quotes.price) ELSE top_price
        top_volume == GetOrNone(raw_data.volume_24h_usd)
        top_market_cap == GetOrNone(raw_data.market_cap_usd)
        nested == top_volume = Null /\ raw_data.quotes.present
        volume_24h == IF nested THEN GetOrNone(raw_data.quotes.volume_24h) ELSE top_volume
        market_cap == IF nested THEN GetOrNone(raw_data.quotes.market_cap)
                      ELSE top_market_cap
    IN  [price_usd |-> NumericOrNone(price_usd),
         market_cap_usd |-> NumericOrNone(market_cap),
         volume_24h_usd |-> NumericOrNone(volume_24h)]

NormalizeCoinpaprikaCall ==
    /\ request.op = "normalize_coinpaprika"
    /\ response = NoResponse
    /\ response' = [op |-> "normalize_coinpaprika",
                    value |-> NormalizeCoinpaprika(request.raw_data)]
    /\ UNCHANGED <<etlVars, resolverVars, request>>

InitQuotes ==
    /\ InitResolver
    /\ request \in [op : {"normalize_coinpaprika"}, raw_data : QuotesRecords]
    /\ response = NoResponse
    /\ clock = 0
    /\ run = [r \in RunIds |-> NoRun]
    /\ cur = 0
    /\ gathers = <<>>
    /\ etl_runs = [r \in RunIds |-> NoRunRow]
    /\ ckpt = [s \in SourceNames |-> SeedCheckpoint]
    /\ raw = {}
    /\ norm = {}
    /\ live = "coinpaprika"
    /\ overlap = FALSE
    /\ unreliable = {}
    /\ budget = 0
    /\ csvFile = NoFile
    /\ faults = 0
    /\ edits = 0

SpecQuotes == InitQuotes /\ [][NormalizeCoinpaprikaCall]_vars

\* ------------------------------------------------- overlapping triggers
\* start_scheduler registers two jobs that both call run_all_sources (the
\* interval job and the startup job) and run_once calls it as well; nothing
\* makes one invocation wait for another, so an invocation may begin while
\* the runs of an earlier one are still awaiting their fetch.  The database
\* calls succeed here; the process may die.
InitOverlap ==
    /\ InitResolver
    /\ InitApi
    /\ clock = 0
    /\ run = [r \in RunIds |-> NoRun]
    /\ cur = 0
    /\ gathers = <<>>
    /\ etl_runs = [r \in RunIds |-> NoRunRow]
    /\ ckpt = [s \in SourceNames |-> SeedCheckpoint]
    /\ raw = {}
    /\ norm = {}
    /\ live \in SourceNames
    /\ overlap = TRUE
    /\ unreliable = {"process"}
    /\ budget = MaxFaults
    /\ csvFile \in (IF live = "csv" THEN CsvFiles \ {NoFile} ELSE {NoFile})
    /\ faults = 0
    /\ edits = 0

SpecOverlap == InitOverlap /\ [][Next]_vars

\* ------------------------------------------------------------ properties
Wrote(r, w) == \E k \in 1..Len(run[r].wlog) : run[r].wlog[k] = w
FirstIndex(r, w) ==
    CHOOSE k \in 1..Len(run[r].wlog) :
        /\ run[r].wlog[k] = w
        /\ \A j \in 1..(k - 1) : run[r].wlog[j] # w
LastIndex(r, w) ==
    CHOOSE k \in 1..Len(run[r].wlog) :
        /\ run[r].wlog[k] = w
        /\ \A j \in (k + 1)..Len(run[r].wlog) : run[r].wlog[j] # w

\* The step in which run r writes its final etl_runs row with status failed.
EndsFailed(r) == etl_runs[r].status # "failed" /\ etl_runs'[r].status = "failed"

\* C1: a run that ends with status failed leaves the checkpoint_value,
\* last_success_at and metadata of its source's checkpoint as they were when
\* the run started, and has set last_failure_at and failure_reason: at the
\* step that writes the failed row, the checkpoint holds the run's error
\* message and a failure time not before the run's start.
C1_FailurePreservation ==
    [][\A r \in RunIds :
         EndsFailed(r) =>
           LET before == run[r].ckptAtStart
               after == ckpt'[run[r].src]
           IN  /\ after.checkpoint_value = before.checkpoint_value
               /\ after.last_success_at = before.last_success_at
               /\ after.metadata = before.metadata
               /\ after.last_failure_at # Null
               /\ after.last_failure_at >= run[r].started_at
               /\ after.failure_reason = run[r].error_message]_vars

\* A failed run of a source whose checkpoint an earlier successful run had
\* advanced.
C1_Witness ==
    \E r \in RunIds :
        /\ etl_runs[r].status = "failed"
        /\ run[r].ckptAtStart.checkpoint_value.kind = "iso"
        /\ run[r].ckptAtStart.last_success_at # Null
        /\ ckpt[run[r].src].checkpoint_value = run[r].ckptAtStart.checkpoint_value
        /\ ckpt[run[r].src].failure_reason = run[r].error_message

\* The csv row count a checkpoint row holds, when it holds one.
IsRowCount(row) == row.checkpoint_value.kind = "rows"

\* C2: the row counts written to the csv checkpoint by successive successful
\* runs never decrease.
C2_CsvCheckpointMonotone ==
    [][(IsRowCount(ckpt["csv"]) /\ IsRowCount(ckpt'["csv"]))
         => ckpt'["csv"].checkpoint_value.v >= ckpt["csv"].checkpoint_value.v]_vars

\* Run q replays run r: r died between the commit of its normalized upserts
\* and the checkpoint advance, q is a later run of the same source that
\* fetched the same records and has committed its upserts.
Replays(q, r) ==
    /\ r < q
    /\ run[r].pc = "dead"
    /\ Wrote(r, "norm_commit")
    /\ ~Wrote(r, "ckpt_success")
    /\ ~run[r].txAborted
    /\ run[q].src = run[r].src
    /\ run[q].raw_data = run[r].raw_data
    /\ Wrote(q, "norm_commit")
    /\ ~run[q].txAborted

\* C3: after the replay the source's normalized rows are the rows the dead
\* run had committed, with no additional row.
C3_ReplayIsNoOp ==
    \A q, r \in RunIds :
        Replays(q, r) => run[q].normAtCommit = run[r].normAtCommit

NaturalKeys(table) == {<<x.source, x.source_id, x.data_timestamp>> : x \in table}

\* C4: normalized_crypto_data holds at most one row per natural key
\* (source, source_id, data_timestamp), whatever was upserted.
C4_OneRowPerNaturalKey == Cardinality(norm) = Cardinality(NaturalKeys(norm))

\* A run has committed more upserts than the source has rows: an upsert hit
\* an existing key.
C4_Witness ==
    \E r \in RunIds :
        /\ Wrote(r, "norm_commit")
        /\ ~run[r].txAborted
        /\ run[r].records_processed > Cardinality(run[r].normAtCommit)
        /\ norm # {}

\* C5: all the calls of resolve with the same (source, source_id) return the
\* same master_coin_id, whatever their order and however they overlap.
C5_ResolverStable ==
    \A a, b \in resolved : a.key = b.key => a.id = b.id

\* C6 as amended: every raw archive commit of a run precedes its first
\* normalized upsert, and on a successful run nothing but the final update of
\* the run's etl_runs row follows the checkpoint advance.
C6_WriteOrder ==
    \A r \in RunIds :
        /\ (Wrote(r, "raw_commit") /\ Wrote(r, "norm_upsert"))
             => LastIndex(r, "raw_commit") < FirstIndex(r, "norm_upsert")
        /\ Wrote(r, "norm_upsert") => Wrote(r, "raw_commit")
        /\ Wrote(r, "ckpt_success")
             => \A k \in (LastIndex(r, "ckpt_success") + 1)..Len(run[r].wlog) :
                    run[r].wlog[k] = "run_update"

\* A successful run that archived, upserted, advanced the checkpoint and
\* wrote its final row.
C6_Witness ==
    \E r \in RunIds :
        /\ run[r].pc = "done"
        /\ run[r].status = "success"
        /\ Wrote(r, "raw_commit")
        /\ Wrote(r, "norm_upsert")
        /\ Wrote(r, "ckpt_success")
        /\ Wrote(r, "run_update")

\* C6 as stated: on a successful run the checkpoint advance is the last
\* database write of the run.
C6_CheckpointIsLastWrite ==
    \A r \in RunIds :
        (run[r].pc = "done" /\ run[r].status = "success" /\ Wrote(r, "ckpt_success"))
          => run[r].wlog[Len(run[r].wlog)] = "ckpt_success"

\* C7: an invocation of run_all_sources runs exactly one run per registered
\* source, and has returned only if every one of them finished; a run that
\* raised or failed leaves the others to reach their final status.
C7_GatherAwaitsAll ==
    \A g \in 1..Len(gathers) :
        /\ \A s \in SourceNames :
               Cardinality({r \in gathers[g].runs : run[r].src = s}) = 1
        /\ gathers[g].state = "returned"
             => \A r \in gathers[g].runs :
                    /\ Finished(r)
                    /\ run[r].pc = "raised" => run[r].markRaised = "failure"

\* An invocation has returned in which one run raised or failed and a run of
\* another source, started after it, ended with its final status written.
C7_Witness ==
    \E g \in 1..Len(gathers) :
        /\ gathers[g].state = "returned"
        /\ \E r, q \in gathers[g].runs :
               /\ r < q
               /\ run[r].pc = "raised" \/ run[r].status = "failed"
               /\ run[q].pc = "done"
               /\ etl_runs[q].status = "success"

\* The record that run r handles in its next loop iteration makes the
\* iteration raise: the normalizer raises, the upsert fails, or the
\* transaction is already aborted.
RecordRaises(r) ==
    /\ run[r].pc = "normalize"
    /\ run'[r].i = run[r].i + 1
    /\ \/ NormalizeRaises(run[r].src, run[r].raw_data[run[r].i + 1])
       \/ run[r].txAborted
       \/ faults' > faults

\* C8: a loop iteration that raises adds one to records_failed, leaves
\* records_processed and the status as they were, and goes on with the next
\* record, or with the commit after the last one.
C8_RecordExceptionIsLocal ==
    [][\A r \in RunIds :
         RecordRaises(r) =>
           /\ run'[r].records_failed = run[r].records_failed + 1
           /\ run'[r].records_processed = run[r].records_processed
           /\ run'[r].status = run[r].status
           /\ run'[r].pc = IF run'[r].i < Len(run[r].raw_data)
                           THEN "normalize" ELSE "norm_commit"]_vars

\* A successful run whose first record raised and whose second was processed.
C8_Witness ==
    \E r \in RunIds :
        /\ etl_runs[r].status = "success"
        /\ etl_runs[r].records_failed = 1
        /\ etl_runs[r].records_processed = 1
        /\ NormalizeRaises(run[r].src, run[r].raw_data[1])

\* C9: a checkpoint write that raises does not change the outcome of the
\* run: after mark_success raised the run ends with status success, and after
\* mark_failure raised the run's etl_runs row ends with status failed.
C9_MarkFailureDoesNotMask ==
    \A r \in RunIds :
        (Finished(r) /\ etl_runs[r].status # "absent") =>
          /\ run[r].markRaised = "success" => etl_runs[r].status = "success"
          /\ run[r].markRaised = "failure" => etl_runs[r].status = "failed"

\* Run r is over and has written what it could: it raised out of
\* run_etl_for_source, or its final update of etl_runs was executed.
Ended(r) ==
    /\ etl_runs[r].status # "absent"
    /\ \/ run[r].pc = "raised"
       \/ run[r].pc = "done" /\ Wrote(r, "run_update")

\* C10: a run whose fetch raised ends with an etl_runs row of status failed
\* that holds the error message, completed_at and zero processed records,
\* with the failure fields of the checkpoint updated and no raw or normalized
\* row written.
C10_FetchFailureEndsFailed ==
    \A r \in RunIds :
        (run[r].fetchRaised /\ Ended(r)) =>
          /\ etl_runs[r].status = "failed"
          /\ etl_runs[r].error_message = run[r].error_message
          /\ etl_runs[r].completed_at # Null
          /\ etl_runs[r].records_processed = 0
          /\ Wrote(r, "ckpt_failure")
          /\ ~Wrote(r, "raw_commit")
          /\ ~Wrote(r, "norm_commit")

\* C11: every etl_runs row with a final status has
\* records_processed + records_failed <= records_fetched.
C11_CountersWithinFetched ==
    \A r \in RunIds :
        etl_runs[r].status \in {"success", "failed"} =>
          etl_runs[r].records_processed + etl_runs[r].records_failed
            <= etl_runs[r].records_fetched

\* A final row of a run that fetched two records, one processed and one
\* failed.
C11_Witness ==
    \E r \in RunIds :
        /\ etl_runs[r].status \in {"success", "failed"}
        /\ etl_runs[r].records_fetched = 2
        /\ etl_runs[r].records_processed = 1
        /\ etl_runs[r].records_failed = 1

\* C12: an etl_runs row with status success has a completed_at and a
\* duration_seconds >= 0; no row is success with completed_at null.
C12_SuccessHasCompletion ==
    \A r \in RunIds :
        etl_runs[r].status = "success" =>
          /\ etl_runs[r].completed_at # Null
          /\ etl_runs[r].completed_at >= etl_runs[r].started_at
          /\ etl_runs[r].duration_seconds >= 0

\* A success row of a run during which time passed.
C12_Witness ==
    \E r \in RunIds :
        /\ etl_runs[r].status = "success"
        /\ etl_runs[r].completed_at > etl_runs[r].started_at
        /\ etl_runs[r].duration_seconds > 0

\* C13: every row of normalized_crypto_data has a master_coin_id, and
\* coin_source_mappings maps the row's (source, source_id) to that coin and
\* to no other.
C13_RowsAreResolved ==
    \A x \in norm :
        /\ x.master_coin_id # Null
        /\ \E m \in coin_source_mappings :
               /\ m.source = x.source
               /\ m.source_id = x.source_id
               /\ m.master_coin_id = x.master_coin_id
        /\ \A m \in coin_source_mappings :
               (m.source = x.source /\ m.source_id = x.source_id)
                 => m.master_coin_id = x.master_coin_id

\* The step in which run r writes its final etl_runs row with status success.
EndsSuccess(r) == etl_runs[r].status # "success" /\ etl_runs'[r].status = "success"

\* C18: when a run ends with status success, its source's checkpoint has
\* been advanced by it: last_success_at is not before the run's start and the
\* metadata is the run's {run_id, records_processed}.
C18_SuccessAdvancesCheckpoint ==
    [][\A r \in RunIds :
         EndsSuccess(r) =>
           LET after == ckpt'[run[r].src]
           IN  /\ after.last_success_at # Null
               /\ after.last_success_at >= run[r].started_at
               /\ after.metadata =
                      [run_id |-> r, records_processed |-> run[r].records_processed]]_vars

\* The rows CSV fetch is to return: none when the file is absent, else the
\* rows after the first k, k the row count stored in the csv checkpoint.
StoredRowCount ==
    IF IsRowCount(ckpt["csv"]) THEN ckpt["csv"].checkpoint_value.v ELSE 0
RemainingRows ==
    IF ~csvFile.exists THEN <<>>
    ELSE [k \in 1..(IF Len(csvFile.rows) > StoredRowCount
                    THEN Len(csvFile.rows) - StoredRowCount ELSE 0)
            |-> csvFile.rows[k + StoredRowCount]]

\* C19: CSV fetch returns, in file order, the rows of the file after the
\* first k rows, k the stored row count, and the empty list when the file is
\* absent or has no more than k rows.
C19_CsvFetchReturnsRemainingRows ==
    [][\A r \in RunIds :
         (run[r].pc = "csv_fetch" /\ run'[r].pc \notin {"csv_fetch", "dead"}) =>
           /\ ~run'[r].fetchRaised
           /\ run'[r].raw_data = RemainingRows]_vars

\* Run r of the csv source has called get_last_row_number.
CalledLastRowNumber(r) ==
    /\ run[r].src = "csv"
    /\ csvFile.exists
    /\ run[r].pc \notin {"none", "new", "csv_fetch"}

\* C20: get_last_row_number never raises; it returns 0 when the source has
\* no checkpoint row and the stored row count when it has one.
C20_LastRowNumberTotal ==
    \A r \in RunIds :
        CalledLastRowNumber(r) =>
          /\ run[r].error_message # "KeyError"
          /\ GetLastRowNumber(NoCheckpoint) = [raised |-> FALSE, value |-> 0]
          /\ LET res == GetLastRowNumber(GetCheckpoint("csv", FALSE))
             IN  /\ ~res.raised
                 /\ res.value >= 0
                 /\ IsRowCount(ckpt["csv"]) => res.value = ckpt["csv"].checkpoint_value.v

\* The call of thread c has its master coin: it is past the lookup by symbol
\* and the insert.
HasMasterCoin(c) == calls[c].pc \in {"insert_mapping", "commit", "update_cache"}

\* C14: master_coins holds at most one row per symbol, the symbol in upper
\* case, and two calls in progress for the same symbol (up to letter case)
\* have the same master coin id.
C14_OneMasterCoinPerSymbol ==
    /\ \A x, y \in master_coins : x.symbol = y.symbol => x = y
    /\ \A x \in master_coins : x.symbol = Upper(x.symbol)
    /\ \A c, d \in Threads :
           (HasMasterCoin(c) /\ HasMasterCoin(d)
              /\ Upper(calls[c].symbol) = Upper(calls[d].symbol))
             => calls[c].master_coin_id = calls[d].master_coin_id

\* The first two calls overlap, both have executed the INSERT for the same
\* symbol (the sequence has advanced twice), and one row exists.
C14_Witness ==
    /\ resolved = {}
    /\ master_coins_id_seq = 3
    /\ Cardinality(master_coins) = 1
    /\ \A c \in Threads : HasMasterCoin(c)
    /\ \A c, d \in Threads : calls[c].master_coin_id = calls[d].master_coin_id

MappingsOf(k) == {m \in coin_source_mappings : CacheKey(m) = k}

\* C15: when a call resolves a coin whose symbol (up to letter case) and
\* similar name are those of the master coin an earlier call returned for
\* another (source, source_id), it returns that master coin too, and each of
\* the two keys has exactly one mapping row, to that coin.
C15_SecondSourceJoinsMasterCoin ==
    \A c \in Threads :
        calls[c].pc = "update_cache" =>
          \A e \in resolved, x \in master_coins :
              ( /\ e.key # CacheKey(calls[c])
                /\ e.id = x.id
                /\ x.symbol = Upper(calls[c].symbol)
                /\ Similarity(Lower(calls[c].name), Lower(x.name)) > SimilarityThreshold )
              => /\ calls[c].master_coin_id = x.id
                 /\ Cardinality(MappingsOf(e.key)) = 1
                 /\ Cardinality(MappingsOf(CacheKey(calls[c]))) = 1
                 /\ \A n \in MappingsOf(e.key) \cup MappingsOf(CacheKey(calls[c])) :
                        n.master_coin_id = x.id

\* A call with symbol "btc" is about to return the master coin "BTC" that a
\* returned call had mapped another source's key to.
C15_Witness ==
    \E c \in Threads :
        /\ calls[c].pc = "update_cache"
        /\ calls[c].symbol = "btc"
        /\ \E e \in resolved, x \in master_coins :
               /\ e.key # CacheKey(calls[c])
               /\ e.id = x.id
               /\ x.symbol = "BTC"
               /\ x.name = calls[c].name
               /\ calls[c].master_coin_id = x.id
               /\ Cardinality(coin_source_mappings) = 2

\* C16: whatever the state of the cache, every call, one at a time and with
\* clear_cache between calls, has returned the id the database maps its key
\* to, which is what a resolver without cache returns.
C16_CacheIsTransparent ==
    \A e \in resolved :
        \E m \in coin_source_mappings :
            /\ m.owner = 0
            /\ CacheKey(m) = e.key
            /\ m.master_coin_id = e.id

\* After a clear_cache a call reads the mapping of a key that an earlier call
\* has resolved.
C16_Witness ==
    \E c \in Threads :
        /\ calls[c].pc = "select_mapping"
        /\ \E e \in resolved : e.key = CacheKey(calls[c])
        /\ \E m \in coin_source_mappings : m.owner = 0 /\ CacheKey(m) = CacheKey(calls[c])

\* C17: after every step, each entry of the mapping cache is the
\* master_coin_id that coin_source_mappings stores for the key, and every
\* stored mapping is still there unchanged.
C17_CacheNeverStale ==
    [][/\ \A k \in MappingKeys :
              source_mapping_cache'[k] # Null =>
                \E m \in coin_source_mappings' :
                    /\ m.owner = 0
                    /\ CacheKey(m) = k
                    /\ m.master_coin_id = source_mapping_cache'[k]
       /\ \A m \in coin_source_mappings :
              m.owner = 0 => m \in coin_source_mappings']_vars

\* C21: a step that upserts into normalized_crypto_data keeps every row that
\* was there, with its id, its conflict key, its symbol and its name: a
\* conflicting upsert changes master_coin_id and the refreshed numerics only.
C21_ConflictUpdatesOnlyFreshFields ==
    [][\A x \in norm :
           \E y \in norm' :
               /\ y.id = x.id
               /\ SameKey(x, y)
               /\ y.symbol = x.symbol
               /\ y.name = x.name]_vars

\* A row inserted with symbol "BTC" (price 1) has been hit by the record of
\* the same key with symbol "XBT" and price 2.
C21_Witness ==
    \E x \in norm : x.symbol = "BTC" /\ x.price_usd = 2

\* The matching rows of a request, and the rows of its pages 1..n.
MatchingRows(req) == {DataRow(row) : row \in {x \in norm : Matches(x, req)}}
PageRows(req, p) ==
    LET page == GetData(norm, [req EXCEPT !.page = p]).data
    IN  {page[k] : k \in 1..Len(page)}
PageLen(req, p) == Len(GetData(norm, [req EXCEPT !.page = p]).data)
RECURSIVE SumPageLen(_, _)
SumPageLen(req, n) == IF n = 0 THEN 0 ELSE PageLen(req, n) + SumPageLen(req, n - 1)

\* C26: a /data response has total_pages = ceil(total_records / page_size)
\* (0 for no records); over the unchanged table the pages 1..total_pages of
\* the request are disjoint, hold every matching row once, their sizes sum
\* to total_records, and any later page is empty.
C26_PagesPartitionTheRows ==
    [][(response' # response /\ response'.op = "data") =>
         LET req == request'
             res == response'
         IN  /\ res.total_records = Cardinality(MatchingRows(req))
             /\ res.total_pages * req.page_size >= res.total_records
             /\ (res.total_pages - 1) * req.page_size < res.total_records
             /\ (res.total_records = 0) = (res.total_pages = 0)
             /\ \A p, q \in 1..res.total_pages :
                    p # q => PageRows(req, p) \cap PageRows(req, q) = {}
             /\ UNION {PageRows(req, p) : p \in 1..res.total_pages} = MatchingRows(req)
             /\ SumPageLen(req, res.total_pages) = res.total_records
             /\ \A p \in (res.total_pages + 1)..(MaxPage + 1) : PageLen(req, p) = 0
             /\ req.page > res.total_pages => res.data = <<>>]_vars

\* The second page of three matching rows, two to a page, is returned.
C26_Witness ==
    /\ response.op = "data"
    /\ response.total_records = 3
    /\ response.total_pages = 2
    /\ request.page = 2
    /\ Len(response.data) = 1

\* C22: the normalized numeric is null exactly when the input value is
\* absent or null, and otherwise equals the input value, 0 included.
C22_NumericNullIffMissing ==
    (response.op = "normalize" /\ ~response.raised) =>
        LET x == request.item.price
            y == response.value.price_usd
        IN  /\ (y = Null) = (x \in {MissingNum, Null})
            /\ x \notin {MissingNum, Null} => y = x

\* C23: normalizing a record whose symbol or name is absent raises, and no
\* normalized record has an empty symbol or name.
C23_AbsentSymbolOrNameRaises ==
    response.op = "normalize" =>
        /\ ( \/ request.item.symbol \in {MissingKey, NoneStr}
             \/ request.item.name \in {MissingKey, NoneStr} ) => response.raised
        /\ ~response.raised => response.value.symbol # "" /\ response.value.name # ""

\* The expected fields of a record whose present, non-null value has none
\* of the types the schema allows for the field.
WrongTypeFields(schema, data) ==
    {f \in ExpectedFieldSet :
        data[f] \notin {MissingKey, "NoneType"} /\ data[f] \notin schema[f].types}

\* C24: with an expected schema set, detect returns, and reports drift
\* exactly when an expected field is missing, an unexpected field is present
\* or a present non-null expected field has a type the schema does not
\* allow; a record that matches the schema gets no drift and no warnings.
C24_DriftIffShapeDiffers ==
    (response.op = "detect" /\ request.schema.set) =>
        LET shapeDiffers ==
                \/ ExpectedFieldSet \ ActualFields(request.data) # {}
                \/ ActualFields(request.data) \ ExpectedFieldSet # {}
                \/ WrongTypeFields(request.schema, request.data) # {}
        IN  /\ ~response.result.raised
            /\ response.result.has_drift = shapeDiffers
            /\ ~shapeDiffers => response.result.warnings = <<>>

\* C25: validate accepts a record exactly when the structural validation of
\* the source's raw schema does, whatever the drift detector does on it.
C25_DriftDetectorIsAdvisory ==
    response.op = "validate" =>
        response.ok = PydanticAccepts(request.source, request.item)

\* validate of the coinpaprika source has accepted a record that has a
\* price and lacks rank, which is drift against COINPAPRIKA_SCHEMA.
C25_Witness ==
    /\ response.op = "validate"
    /\ request.source = "coinpaprika"
    /\ request.item.price = 1
    /\ response.ok

\* The stored run with the given id, if any.
RunExists(id) == id \in RunIds /\ etl_runs[id].status # "absent"

\* C27: /compare-runs answers with a 4xx status when a run id does not exist
\* or the two runs have different sources, and with a comparison only when
\* both runs exist and share a source.
C27_CompareRunsClientError ==
    response.op = "compare" =>
        LET comparable ==
                /\ RunExists(request.run1_id)
                /\ RunExists(request.run2_id)
                /\ etl_runs[request.run1_id].source_name
                     = etl_runs[request.run2_id].source_name
        IN  /\ ~comparable => response.status \in 400..499
            /\ response.status = 200 => comparable

\* C28: in a comparison, the differences are run2 - run1, the reported
\* percentages are the differences relative to run1 to two decimals (0 when
\* run1's value is 0), anomaly_detected holds exactly when the records
\* percentage exceeds 50 in absolute value, the duration percentage exceeds
\* 100, or run2 processed no record, and anomaly_reasons has one entry per
\* condition that holds.
C28_ComparisonArithmetic ==
    (response.op = "compare" /\ response.status = 200) =>
        LET r1 == OrZero(etl_runs[request.run1_id].records_processed)
            r2 == OrZero(etl_runs[request.run2_id].records_processed)
            d1 == OrZero(etl_runs[request.run1_id].duration_seconds)
            d2 == OrZero(etl_runs[request.run2_id].duration_seconds)
            recordsFire == r1 > 0 /\ Abs(r2 - r1) * 100 > 50 * r1
            durationFire == d1 > 0 /\ Abs(d2 - d1) * 100 > 100 * d1
            zeroFire == r2 = 0
        IN  /\ response.records_diff = r2 - r1
            /\ response.duration_diff_seconds = d2 - d1
            /\ IF r1 > 0
               THEN 2 * Abs(response.records_diff_percentage * r1 - (r2 - r1) * 10000) <= r1
               ELSE response.records_diff_percentage = 0
            /\ IF d1 > 0
               THEN 2 * Abs(response.duration_diff_percentage * d1 - (d2 - d1) * 10000) <= d1
               ELSE response.duration_diff_percentage = 0
            /\ response.anomaly_detected = (recordsFire \/ durationFire \/ zeroFire)
            /\ Len(response.anomaly_reasons)
                 = B2N(recordsFire) + B2N(durationFire) + B2N(zeroFire)

\* Fewer records in more time: both thresholds are exceeded, run2 is not
\* empty, and two reasons are given.
C28_Witness ==
    /\ response.op = "compare"
    /\ response.status = 200
    /\ response.records_diff < 0
    /\ response.duration_diff_seconds > 0
    /\ response.anomaly_detected
    /\ Len(response.anomaly_reasons) = 2

\* The rules of 4.I that fire for run l against the older runs H.
RulesFired(l, H) ==
    LET n == Cardinality(H)
        sumRecords == SumOver(etl_runs, H, "records_processed")
        sumDuration == SumOver(etl_runs, H, "duration_seconds")
        records == OrZero(etl_runs[l].records_processed)
        duration == OrZero(etl_runs[l].duration_seconds)
    IN  B2N(etl_runs[l].status = "failed")
        + B2N(sumRecords > 0 /\ Abs(records * n - sumRecords) * 2 > sumRecords)
        + B2N(sumDuration > 0 /\ Abs(duration * n - sumDuration) > sumDuration)
        + B2N(OrZero(etl_runs[l].records_failed) * 10 > records)

\* C29: /anomalies has a report for a source exactly when the window holds
\* at least 2 runs of it and a rule fires for its latest run against the
\* older ones; severity is high if that run failed or 3 rules fired, medium
\* if 2 fired, low otherwise.
C29_AnomalyReports ==
    response.op = "anomalies" =>
        \A s \in SourceNames :
            LET runs == RunsInWindow(etl_runs, s, request.hours, clock)
                reps == {rep \in response.reports : rep.source_name = s}
            IN  /\ Cardinality(reps) <= 1
                /\ \A rep \in reps :
                       LET fired == RulesFired(rep.run_id, runs \ {rep.run_id})
                       IN  /\ Cardinality(runs) >= 2
                           /\ rep.run_id \in LatestCandidates(etl_runs, runs)
                           /\ fired >= 1
                           /\ Len(rep.anomalies) = fired
                           /\ rep.severity =
                                IF etl_runs[rep.run_id].status = "failed" \/ fired >= 3
                                THEN "high"
                                ELSE IF fired = 2 THEN "medium" ELSE "low"
                /\ reps = {} =>
                       \/ Cardinality(runs) < 2
                       \/ \E l \in LatestCandidates(etl_runs, runs) :
                              RulesFired(l, runs \ {l}) = 0

\* A report of medium severity for a latest run that succeeded, measured
\* against two older runs.
C29_Witness ==
    /\ response.op = "anomalies"
    /\ \E rep \in response.reports :
           /\ rep.severity = "medium"
           /\ Cardinality(RunsInWindow(etl_runs, rep.source_name, request.hours, clock)) = 3

\* The row count the csv checkpoint held when run r started.
RowCountAtStart(r) ==
    IF IsRowCount(run[r].ckptAtStart) THEN run[r].ckptAtStart.checkpoint_value.v ELSE 0

\* C30: when a csv run that fetched n > 0 rows ends with status success, the
\* csv checkpoint holds k + n, k the row count it held when the run started.
C30_CsvCheckpointAdvancesByFetched ==
    [][\A r \in RunIds :
         (EndsSuccess(r) /\ run[r].src = "csv" /\ run[r].records_fetched > 0) =>
           ckpt'["csv"].checkpoint_value =
               StrOfInt(RowCountAtStart(r) + run[r].records_fetched)]_vars

\* C31: when a run of an HTTP source that fetched records ends with status
\* success, the checkpoint_value of its source is the ISO-8601 text of the
\* run's started_at.
C31_HttpCheckpointIsStartTime ==
    [][\A r \in RunIds :
         (EndsSuccess(r) /\ run[r].src # "csv" /\ run[r].records_fetched > 0) =>
           ckpt'[run[r].src].checkpoint_value = IsoFormat(etl_runs[r].started_at)]_vars

\* C32: save_raw returns the number of rows it inserted into the raw archive
\* (records that conflict on the archive's unique key and records that fail
\* validation are not counted), and it leaves the rows the archive held
\* unchanged.
C32_SaveRawReturnsInsertedCount ==
    [][(request'.op = "save_raw" /\ ~response'.raised) =>
         /\ raw \subseteq raw'
         /\ response'.saved_count = Cardinality(raw' \ raw)]_vars

\* Run r passes, in this step, the loop iteration of a record that validate
\* rejects.
IteratesInvalid(r) ==
    /\ run[r].pc = "normalize"
    /\ run'[r].i = run[r].i + 1
    /\ ~Validate(run[r].src, run[r].raw_data[run[r].i + 1])

\* C33: a record that fails validate is dropped: the raw archive holds no
\* such record, and the loop iteration of the record adds one to
\* records_failed, executes no upsert into normalized_crypto_data and goes on
\* with the next record, or with the commit after the last one.
C33_InvalidRecordIsDropped ==
    [][/\ \A x \in raw' : Validate(x.source, x.item)
       /\ \A r \in RunIds :
            IteratesInvalid(r) =>
              /\ run'[r].records_failed = run[r].records_failed + 1
              /\ run'[r].tx = run[r].tx
              /\ run'[r].pc = IF run'[r].i < Len(run[r].raw_data)
                              THEN "normalize" ELSE "norm_commit"]_vars

\* Run r leaves, in this step, the commit of a loop transaction in which a
\* database error occurred: a statement of the transaction failed, or the
\* commit itself fails.
LeavesFailedTransaction(r) ==
    /\ run[r].pc = "norm_commit"
    /\ run'[r].pc \notin {"norm_commit", "dead"}
    /\ run[r].txAborted \/ faults' > faults

\* C34: on a database error inside the transaction of the record loop none
\* of the run's normalized upserts becomes visible and the run is ended as
\* failed by the orchestrator.
C34_LoopTransactionIsAtomic ==
    [][\A r \in RunIds :
         LeavesFailedTransaction(r) =>
           /\ norm' = norm
           /\ run'[r].status = "failed"]_vars

\* The committed master coins that have the symbol of call c.
SymbolRows(c) == {x \in master_coins : x.symbol = Upper(calls[c].symbol) /\ x.owner = 0}
SimilarTo(c, x) ==
    Similarity(Lower(calls[c].name), Lower(x.name)) > SimilarityThreshold
RowOfId(table, id) == {y \in table : y.id = id}

\* C35: a call whose symbol has a master coin takes that coin when the names
\* are similar (above 0.7), leaving it unchanged; otherwise it proceeds to
\* create, which returns the existing id, and the call's commit replaces the
\* coin's name and updated_at by the new ones, keeps its id, symbol and
\* canonical_id, adds no master coin and has the (source, source_id) mapped
\* to the existing id.
C35_SymbolConflictRenames ==
    [][\A c \in Threads : \A x \in SymbolRows(c) :
         /\ (calls[c].pc = "find" /\ calls'[c].pc # "find") =>
              /\ master_coins' = master_coins
              /\ IF SimilarTo(c, x)
                 THEN calls'[c].pc = "insert_mapping" /\ calls'[c].master_coin_id = x.id
                 ELSE calls'[c].pc = "create"
         /\ (calls[c].pc = "create" /\ calls'[c].pc # "create") =>
              /\ calls'[c].master_coin_id = x.id
              /\ \E y \in RowOfId(master_coins', x.id) : NameSeen(y, c) = calls[c].name
         /\ (calls[c].pc = "commit" /\ calls'[c].pc # "commit") =>
              /\ {y.id : y \in master_coins'} = {y.id : y \in master_coins}
              /\ calls[c].master_coin_id = x.id
              /\ \E y \in RowOfId(master_coins', x.id) :
                    /\ y.symbol = x.symbol
                    /\ y.canonical_id = x.canonical_id
                    /\ y.owner = 0
                    /\ IF SimilarTo(c, x)
                       THEN y.name = x.name /\ y.updated_at = x.updated_at
                       ELSE y.name = calls[c].name /\ y.updated_at = clock
              /\ \E m \in coin_source_mappings' :
                    /\ m.source = calls[c].source
                    /\ m.source_id = calls[c].source_id
                    /\ m.master_coin_id = x.id
                    /\ m.owner = 0]_vars

\* A master coin created as Bitcoin that a later call, made after the clock
\* moved on, renamed to Wrapped Bitcoin, and the call has returned its id.
C35_Witness ==
    \E x \in master_coins, e \in resolved :
        /\ x.owner = 0
        /\ x.canonical_id = CanonicalId("Bitcoin")
        /\ x.name = "Wrapped Bitcoin"
        /\ x.updated_at = MaxTime
        /\ e.id = x.id
        /\ Cardinality(master_coins) = 1
        /\ Cardinality(resolved) >= 2

\* The value of one money field resolved by itself: the top-level value when
\* it is present, else the nested one when the record has quotes.
ResolvedAlone(top, quotes, nested) ==
    IF GetOrNone(top) # Null THEN top
    ELSE IF quotes.present THEN GetOrNone(nested) ELSE Null

\* C36: each of price_usd, volume_24h_usd and market_cap_usd of the
\* normalized coinpaprika record comes from the top-level value when that is
\* present and from quotes.USD only when it is absent, whatever the other two
\* fields are.
C36_QuotesFallbackPerField ==
    (request.op = "normalize_coinpaprika" /\ response # NoResponse) =>
      LET raw_data == request.raw_data
          q == raw_data.quotes
      IN  /\ response.value.price_usd =
                 NumericOrNone(ResolvedAlone(raw_data.price_usd, q, q.price))
          /\ response.value.volume_24h_usd =
                 NumericOrNone(ResolvedAlone(raw_data.volume_24h_usd, q, q.volume_24h))
          /\ response.value.market_cap_usd =
                 NumericOrNone(ResolvedAlone(raw_data.market_cap_usd, q, q.market_cap))

\* Run r is between its start and its final etl_runs write.
InProgress(r) == run[r].pc \notin {"none", "new", "done", "raised", "dead"}

\* C37: no two runs of the same source are in progress at the same time.
C37_OneRunPerSource ==
    \A r, q \in RunIds :
        (r # q /\ run[r].src = run[q].src) => ~(InProgress(r) /\ InProgress(q))

\* Run r has committed upserts into normalized_crypto_data: it executed at
\* least one upsert in a transaction that did not abort, and committed it.
CommittedUpserts(r) ==
    /\ Wrote(r, "norm_upsert")
    /\ Wrote(r, "norm_commit")
    /\ ~run[r].txAborted

\* C38: a run whose etl_runs row ends with status failed has committed no
\* upsert into normalized_crypto_data.
C38_FailedRunCommitsNothing ==
    \A r \in RunIds : etl_runs[r].status = "failed" => ~CommittedUpserts(r)

\* C39: an etl_runs row is inserted as running by its own run, gets its
\* final status (success or failed) once, from that run, is never changed
\* afterwards, and is no longer running once the run's task has finished.
C39_RunRowLifecycle ==
    [][\A r \in RunIds :
         /\ etl_runs[r].status = "absent"
              => etl_runs'[r].status \in {"absent", "running"}
         /\ etl_runs[r].status \in {"success", "failed"}
              => etl_runs'[r] = etl_runs[r]
         /\ etl_runs'[r] # etl_runs[r]
              => /\ run[r].pc \in {"new", "final"}
                 /\ etl_runs'[r].source_name = run[r].src
         /\ (run'[r].pc \in {"done", "raised"} /\ etl_runs'[r].status # "absent")
              => etl_runs'[r].status # "running"]_vars

====
